---- MODULE Spec2Model ----
(***************************************************************************)
(* A model of the two component revisions of InfraDon2:                    *)
(*   "TheWelcome" : src/InfraDon2 - noSQL/src/components/TheWelcome.vue    *)
(*   "part_000"   : src/unnamed/part_000                                   *)
(* The variable  variant  says which revision a behaviour runs.            *)
(*                                                                         *)
(* The document store (PouchDB) is not code of the repository.  It is      *)
(* modelled by its contract: a store maps an identifier to the winning     *)
(* revision of the document (a tombstone once removed); a revision token   *)
(* is the path of revision tags from the first write to this one; a write  *)
(* must carry the current token; find() filters, sorts, skips and limits   *)
(* as its request says; replication copies winning revisions and picks a   *)
(* deterministic winner between two revisions of which neither descends    *)
(* from the other.  Attachments are left out.                              *)
(*                                                                         *)
(* Every async method is a task: a queue of the store requests it still    *)
(* has to await.  One step of a task executes the request it awaits and    *)
(* runs the method on to its next await; other tasks, user events and      *)
(* replication interleave between the steps.                               *)
(***************************************************************************)
EXTENDS Integers, Sequences, FiniteSets, TLC

(***************************************************************************)
(* Bounds of the model.                                                    *)
(***************************************************************************)
MaxTime == 2
MaxRevs == 3
MaxTasks == 2
MaxHandlers == 2
MaxLikes == 1
MaxRemoteWrites == 1
MaxRnd == 1
MaxStored == 11
GenCountries == 1
GenMessages == 1
GenComments == 1

(***************************************************************************)
(* Program constants.                                                      *)
(***************************************************************************)
topMessagesLimit == 10
TopLimit == 10

(***************************************************************************)
(* Strings are sequences of characters, so that trim(), the 'i' flag and   *)
(* the regular expression built from a search term are computed.           *)
(***************************************************************************)
Chars == {"a", "A", " ", "."}

EmptyStr == << >>

Lower(c) == IF c = "A" THEN "a" ELSE c

LowerStr(s) == [i \in 1..Len(s) |-> Lower(s[i])]

RECURSIVE TrimLeft(_)
TrimLeft(s) == IF s # << >> /\ Head(s) = " " THEN TrimLeft(Tail(s)) ELSE s

RECURSIVE TrimRight(_)
TrimRight(s) ==
    IF s # << >> /\ s[Len(s)] = " " THEN TrimRight(SubSeq(s, 1, Len(s) - 1)) ELSE s

Trim(s) == TrimRight(TrimLeft(s))

\* new RegExp(`^${term}$`, 'i').test(s): the term is the pattern itself, so a
\* "." in it matches any character; every other character of the alphabet is
\* a literal, compared without case.
RegexFullMatchI(term, s) ==
    /\ Len(term) = Len(s)
    /\ \A i \in 1..Len(s) : term[i] = "." \/ Lower(term[i]) = Lower(s[i])

(***************************************************************************)
(* Identifiers: `${prefix}_${Date.now()}` or, with a random component,     *)
(* `${prefix}_${Date.now()}_${Math.random()}`.  rnd = 0: no random part.   *)
(***************************************************************************)
DocTypes == {"country", "message", "comment"}

MkId(prefix, ts, rnd) == [prefix |-> prefix, ts |-> ts, rnd |-> rnd]

NoId == MkId("", 0, 0)

\* The order of the identifier strings: "comment_" < "country_" < "message_".
PrefixRank(p) ==
    CASE p = "" -> 0
      [] p = "comment" -> 1
      [] p = "country" -> 2
      [] p = "message" -> 3
      [] OTHER -> 4

IdLess(a, b) ==
    \/ PrefixRank(a.prefix) < PrefixRank(b.prefix)
    \/ /\ a.prefix = b.prefix
       /\ \/ a.ts < b.ts
          \/ a.ts = b.ts /\ a.rnd < b.rnd

(***************************************************************************)
(* Documents.  One record shape for the three types; a field a type does   *)
(* not have keeps its default.  _attachments: the document holds a file.   *)
(***************************************************************************)
BlankDoc ==
    [_id |-> NoId, _rev |-> << >>, _deleted |-> FALSE, type |-> "",
     name |-> EmptyStr, region |-> EmptyStr,
     countryId |-> NoId, messageId |-> NoId,
     title |-> EmptyStr, content |-> EmptyStr, author |-> EmptyStr,
     likes |-> 0, createdAt |-> 0, updatedAt |-> 0, _attachments |-> FALSE]

NoDoc == BlankDoc

CountryDoc(id, name, region, at) ==
    [BlankDoc EXCEPT !._id = id, !.type = "country", !.name = name,
                     !.region = region, !.createdAt = at]

MessageDoc(id, countryId, title, content, likes, at) ==
    [BlankDoc EXCEPT !._id = id, !.type = "message", !.countryId = countryId,
                     !.title = title, !.content = content, !.likes = likes,
                     !.createdAt = at]

CommentDoc(id, messageId, content, author, at) ==
    [BlankDoc EXCEPT !._id = id, !.type = "comment", !.messageId = messageId,
                     !.content = content, !.author = author, !.createdAt = at]

(***************************************************************************)
(* The store contract.                                                     *)
(***************************************************************************)
EmptyDB == [i \in {} |-> NoDoc]

LiveIds(db) == {i \in DOMAIN db : ~db[i]._deleted}

LiveDocs(db) == {db[i] : i \in LiveIds(db)}

\* db.get(id): the document, or NoDoc where the call rejects (missing, deleted).
DbGet(db, id) == IF id \in LiveIds(db) THEN db[id] ELSE NoDoc

\* Whether a put/remove of doc is accepted: a new document carries no token,
\* an existing one must carry the current token.
RevMatches(db, doc) ==
    IF doc._id \in DOMAIN db
    THEN \/ doc._rev = db[doc._id]._rev
         \/ db[doc._id]._deleted /\ doc._rev = << >>
    ELSE doc._rev = << >>

CurrentRev(db, id) == IF id \in DOMAIN db THEN db[id]._rev ELSE << >>

Store(db, doc) == [i \in DOMAIN db \cup {doc._id} |-> IF i = doc._id THEN doc ELSE db[i]]

\* db.put(doc) once accepted: the document under a new token that descends
\* from the current one.
DbPut(db, doc, tag) ==
    Store(db, [doc EXCEPT !._rev = Append(CurrentRev(db, doc._id), tag),
                          !._deleted = FALSE])

\* db.remove(doc) once accepted: a tombstone under a new token.
DbRemove(db, doc, tag) ==
    Store(db, [BlankDoc EXCEPT !._id = doc._id,
                               !._rev = Append(CurrentRev(db, doc._id), tag),
                               !._deleted = TRUE])

\* A set of documents as a sequence in the strict total order Before.
SortDocs(S, Before(_, _)) ==
    [i \in 1..Cardinality(S) |->
        CHOOSE x \in S : Cardinality({y \in S : Before(y, x)}) = i - 1]

ById(a, b) == IdLess(a._id, b._id)

ByLikesDesc(a, b) == a.likes > b.likes \/ (a.likes = b.likes /\ IdLess(b._id, a._id))

ByCreatedAsc(a, b) ==
    a.createdAt < b.createdAt \/ (a.createdAt = b.createdAt /\ IdLess(a._id, b._id))

ByCreatedDesc(a, b) ==
    a.createdAt > b.createdAt \/ (a.createdAt = b.createdAt /\ IdLess(b._id, a._id))

CharRank(c) ==
    CASE c = " " -> 1
      [] c = "." -> 2
      [] c = "A" -> 3
      [] OTHER -> 4

RECURSIVE StrLess(_, _)
StrLess(s, t) ==
    IF t = << >> THEN FALSE
    ELSE IF s = << >> THEN TRUE
    ELSE IF Head(s) # Head(t) THEN CharRank(Head(s)) < CharRank(Head(t))
    ELSE StrLess(Tail(s), Tail(t))

ByNameAsc(a, b) == StrLess(a.name, b.name) \/ (a.name = b.name /\ IdLess(a._id, b._id))

Skip(s, n) == IF n >= Len(s) THEN << >> ELSE SubSeq(s, n + 1, Len(s))

Limit(s, n) == IF n >= Len(s) THEN s ELSE SubSeq(s, 1, n)

\* db.allDocs({include_docs, startkey: prefix + '_', endkey: prefix + '_￿'})
AllDocsByPrefix(db, prefix) ==
    SortDocs({d \in LiveDocs(db) : d._id.prefix = prefix}, ById)

Range(s) == {s[i] : i \in 1..Len(s)}


\* db.find({selector: {type, ...}, sort, limit, skip}): the live documents of
\* the type that satisfy Matches, in the order Before, after skip and limit.
Find(db, type, Matches(_), Before(_, _), limit, skip) ==
    Limit(Skip(SortDocs({d \in LiveDocs(db) : d.type = type /\ Matches(d)}, Before), skip),
          limit)

NoLimit == 1000

(***************************************************************************)
(* Replication between two stores.                                         *)
(***************************************************************************)
IsPrefix(r, s) == Len(r) <= Len(s) /\ SubSeq(s, 1, Len(r)) = r

\* The deterministic winner of two revisions neither of which descends from
\* the other: a live one over a deleted one, then the longer path, then the
\* greater last tag.
Winner(a, b) ==
    IF a._deleted # b._deleted THEN (IF a._deleted THEN b ELSE a)
    ELSE IF Len(a._rev) # Len(b._rev) THEN (IF Len(a._rev) > Len(b._rev) THEN a ELSE b)
    ELSE IF a._rev[Len(a._rev)] >= b._rev[Len(b._rev)] THEN a ELSE b

\* The target store after revision d has been replicated into it.
Merge(db, d) ==
    IF d._id \notin DOMAIN db THEN Store(db, d)
    ELSE LET cur == db[d._id]
         IN  IF IsPrefix(d._rev, cur._rev) THEN db
             ELSE IF IsPrefix(cur._rev, d._rev) THEN Store(db, d)
             ELSE Store(db, Winner(cur, d))

\* The identifiers whose revision in src the store dst has not got.
Unreplicated(src, dst) == {i \in DOMAIN src : Merge(dst, src[i]) # dst}

RECURSIVE MergeAll(_, _, _)
MergeAll(dst, src, ids) ==
    IF ids = {} THEN dst
    ELSE LET i == CHOOSE x \in ids : TRUE
         IN  MergeAll(Merge(dst, src[i]), src, ids \ {i})

(***************************************************************************)
(* The state.                                                              *)
(***************************************************************************)
VARIABLES
    variant,        \* which revision runs: "TheWelcome" or "part_000"
    state,          \* state.value, the reactive state of the component
    localDB,        \* the documents of the local store
    remoteDB,       \* the documents of the remote store
    liveSyncs,      \* the replication streams started and not cancelled
    handlersMade,   \* how many replication streams were ever started
    now,            \* Date.now()
    revSeq,         \* how many revision tags were ever minted
    remoteWrites,   \* how many writes other clients made to the remote store
    tasks,          \* the async methods in flight
    log             \* what the methods did, for the properties

vars == <<variant, state, localDB, remoteDB, liveSyncs, handlersMade, now, revSeq,
          remoteWrites, tasks, log>>

Texts == {<<"a">>, <<"A">>, <<" ">>}

Names == {<<"A">>}

BlankForm == [title |-> EmptyStr, content |-> EmptyStr]

BlankCountryForm == [name |-> EmptyStr, region |-> EmptyStr]

BlankCommentForm == [content |-> EmptyStr, author |-> EmptyStr]

\* The values of a form as a method applies them to a document.
BlankValues == [name |-> EmptyStr, region |-> EmptyStr, title |-> EmptyStr,
                content |-> EmptyStr, author |-> EmptyStr]

BlankQuery == [countryId |-> NoId, term |-> EmptyStr, sortBy |-> "date", skip |-> 0,
               region |-> EmptyStr]

Idle == [op |-> "idle", steps |-> << >>, id |-> NoId, doc |-> NoDoc, q |-> BlankQuery,
         form |-> BlankValues, todo |-> << >>, acc |-> << >>, wrote |-> FALSE]

NewTask(op, steps) == [Idle EXCEPT !.op = op, !.steps = steps]

\* const state = ref({...}); mounted: the onMounted hook has run.
InitialState(v) ==
    [mounted |-> FALSE, dbOpen |-> FALSE, syncHandler |-> 0, isOnline |-> TRUE,
     isLoading |-> (v = "part_000"),
     countries |-> << >>, messages |-> << >>, comments |-> << >>,
     topLikedMessages |-> << >>,
     selectedCountryId |-> NoId, expandedMessageId |-> NoId,
     topMessagesOffset |-> 0, hasMoreTopMessages |-> TRUE,
     newCountry |-> BlankCountryForm, newMessage |-> BlankForm,
     newComment |-> BlankCommentForm,
     commentForms |-> [i \in {} |-> BlankCommentForm],
     allCommentsForMessage |-> [i \in {} |-> << >>],
     editingCountryId |-> NoId, editingMessageId |-> NoId, editingCommentId |-> NoId,
     editingCommentData |-> BlankCommentForm,
     searchRegion |-> EmptyStr, searchMessageTerm |-> EmptyStr, searchTerm |-> EmptyStr,
     sortBy |-> "date",
     userLikedMessages |-> {}]

\* The application side that a method's synchronous code reads and writes:
\* the reactive state and the replication streams.
Bundle(st, live, made) == [st |-> st, live |-> live, made |-> made]

Here == Bundle(state, liveSyncs, handlersMade)

\* The inputs of the forms are marked required: a form is submitted once
\* none of its fields is empty.
Filled(form) == \A f \in DOMAIN form : form[f] # EmptyStr

\* The main content of either template is the v-else of the loading message:
\* its buttons and forms exist once the stores are open and nothing loads.
Rendered == state.dbOpen /\ ~state.isLoading

(***************************************************************************)
(* Replication controller.                                                 *)
(***************************************************************************)
\* startContinuousSync() with sync(remoteDB) where it calls
\* sync(remoteDB, {live: true, retry: true}): the replication is not kept open.
startContinuousSync_NotLive(b) ==
    IF ~b.st.isOnline THEN b
    ELSE Bundle([b.st EXCEPT !.syncHandler = b.made + 1], b.live, b.made + 1)

\* TheWelcome: startContinuousSync()
startContinuousSync(b) ==
    IF ~b.st.isOnline THEN b
    ELSE Bundle([b.st EXCEPT !.syncHandler = b.made + 1],
                b.live \cup {b.made + 1}, b.made + 1)

\* TheWelcome: stopContinuousSync()
stopContinuousSync(b) ==
    IF b.st.syncHandler # 0
    THEN Bundle([b.st EXCEPT !.syncHandler = 0], b.live \ {b.st.syncHandler}, b.made)
    ELSE b

\* part_000: syncDatabases()
syncDatabases(b) ==
    IF ~b.st.isOnline \/ ~b.st.dbOpen THEN b
    ELSE Bundle([b.st EXCEPT !.syncHandler = b.made + 1],
                b.live \cup {b.made + 1}, b.made + 1)

\* part_000: the offline branch of toggleOnlineOffline(): syncHandler.cancel()
cancelSyncHandler(b) ==
    IF b.st.syncHandler # 0
    THEN Bundle(b.st, b.live \ {b.st.syncHandler}, b.made)
    ELSE b

\* toggleOnlineOffline() of either revision
toggleBundle(v, b) ==
    LET flipped == Bundle([b.st EXCEPT !.isOnline = ~b.st.isOnline], b.live, b.made)
    IN  IF v = "TheWelcome"
        THEN (IF flipped.st.isOnline THEN startContinuousSync(flipped)
              ELSE stopContinuousSync(flipped))
        ELSE (IF flipped.st.isOnline THEN syncDatabases(flipped)
              ELSE cancelSyncHandler(flipped))


(***************************************************************************)
(* What the step just taken did, for the properties: log.last describes    *)
(* the write (or the query) of the last step and is NoEvent after a step   *)
(* that made none.                                                         *)
(***************************************************************************)
NoEvent == [op |-> "", kind |-> "", ok |-> FALSE, raised |-> FALSE, before |-> NoDoc,
            after |-> NoDoc, read |-> NoDoc, form |-> BlankValues, arg |-> EmptyStr,
            result |-> << >>]

Event(op, kind, ok, before, after, read) ==
    [NoEvent EXCEPT !.op = op, !.kind = kind, !.ok = ok, !.before = before,
                    !.after = after, !.read = read]

QueryEvent(op, arg, result) ==
    [NoEvent EXCEPT !.op = op, !.kind = "query", !.ok = TRUE, !.arg = arg,
                    !.result = result]

NoSnap == [taken |-> FALSE, clean |-> FALSE, local |-> EmptyDB, remote |-> EmptyDB]

NoEnd == [op |-> "", id |-> NoId, wrote |-> FALSE]

\* last: the event of the step just taken; ended: the method that returned in
\* it; offlineTags: the revisions written locally since isOnline became false;
\* carried: the revisions written locally while isOnline was false;
\* snap: the stores when isOnline became false, clean until a write; likeTags:
\* the revisions written by a like; overlapped: the watched methods once called
\* while a call of the same method was in flight; origin: the local store at
\* start; loads: the loadMoreTopMessages() answered since the last answer to a
\* fetchTopLikedMessages().
InitialLog == [last |-> NoEvent, ended |-> NoEnd, offlineTags |-> {}, carried |-> {},
               snap |-> NoSnap, likeTags |-> {}, overlapped |-> {}, origin |-> EmptyDB,
               loads |-> 0]

\* The log after a step with event e that wrote tag (0: no local write).
Logged(e, tag) ==
    [log EXCEPT !.last = e,
                !.ended = NoEnd,
                !.offlineTags = IF tag # 0 /\ ~state.isOnline THEN @ \cup {tag} ELSE @,
                !.carried = IF tag # 0 /\ ~state.isOnline THEN @ \cup {tag} ELSE @,
                !.likeTags = IF tag # 0 /\ e.kind = "like" THEN @ \cup {tag} ELSE @,
                !.snap = IF tag # 0 THEN [@ EXCEPT !.clean = FALSE] ELSE @]

(***************************************************************************)
(* Tasks.                                                                  *)
(***************************************************************************)
TaskIds == 1..MaxTasks

Awaiting(t, label) == tasks[t].steps # << >> /\ Head(tasks[t].steps) = label

\* The task once the request it awaited has been answered.
Resumed(tk) == [tk EXCEPT !.steps = Tail(@)]

\* The task once an exception has reached the catch of its method.
Caught(tk) == [tk EXCEPT !.steps = << >>]

Ids(docs) == [i \in 1..Len(docs) |-> docs[i]._id]

\* const initCommentForm = (messageId) => {...}
initCommentForm(st, messageId) ==
    IF messageId \in DOMAIN st.commentForms THEN st
    ELSE [st EXCEPT !.commentForms =
              [i \in DOMAIN @ \cup {messageId} |->
                  IF i = messageId THEN BlankCommentForm ELSE @[i]]]

RECURSIVE initCommentForms(_, _)
initCommentForms(st, ids) ==
    IF ids = << >> THEN st ELSE initCommentForms(initCommentForm(st, Head(ids)), Tail(ids))

\* The message whose expanded view a comment method refreshes.
MessageOf(tk) == IF tk.op \in {"updateComment", "deleteComment"} THEN tk.doc.messageId ELSE tk.id

\* delete state.value.allCommentsForMessage[messageId]
Forget(f, m) == [i \in DOMAIN f \ {m} |-> f[i]]

\* The synchronous code a method runs when it is entered, up to the request
\* it awaits first: Settle runs the task on from the label at the head of its
\* queue, through the methods that return without awaiting a request, until
\* a request is awaited or the task has ended.
RECURSIVE Settle(_, _)
Settle(b, tk) ==
    IF tk.steps = << >> THEN [b |-> b, tk |-> tk]
    ELSE LET label == Head(tk.steps)
             rest == Tail(tk.steps)
             st == b.st
         IN  CASE label = "fetchAllData:if" ->
                    \* TheWelcome fetchAllData: if (state.value.selectedCountryId)
                    IF st.selectedCountryId # NoId
                    THEN Settle(b, [tk EXCEPT !.steps = <<"fetchMessages", "fetchComments">> \o rest])
                    ELSE Settle(b, [tk EXCEPT !.steps = rest])
               [] label = "fetchTopLikedMessages" ->
                    \* if (!loadMore) { topMessagesOffset = 0; topLikedMessages = [] }
                    [b |-> [b EXCEPT !.st = [st EXCEPT !.topMessagesOffset = 0,
                                                       !.topLikedMessages = << >>]],
                     tk |-> [tk EXCEPT !.q = [BlankQuery EXCEPT !.skip = 0]]]
               [] label = "loadMoreTopMessages" ->
                    [b |-> b,
                     tk |-> [tk EXCEPT !.q = [BlankQuery EXCEPT !.skip = st.topMessagesOffset]]]
               [] label = "fetchMessages" ->
                    IF st.selectedCountryId = NoId
                    THEN Settle([b EXCEPT !.st = [st EXCEPT !.messages = << >>]],
                                [tk EXCEPT !.steps = rest])
                    ELSE [b |-> b,
                          tk |-> [tk EXCEPT !.q = [BlankQuery EXCEPT
                                     !.countryId = st.selectedCountryId,
                                     !.term = Trim(st.searchMessageTerm),
                                     !.sortBy = st.sortBy]]]
               [] label = "fetchComments" ->
                    IF st.messages = << >>
                    THEN Settle([b EXCEPT !.st = [st EXCEPT !.comments = << >>]],
                                [tk EXCEPT !.steps = rest])
                    ELSE [b |-> b,
                          tk |-> [tk EXCEPT !.todo = Ids(st.messages), !.acc = << >>]]
               [] label = "refreshExpanded" ->
                    \* if (state.value.expandedMessageId === messageId) { delete ...; await ... }
                    IF st.expandedMessageId = MessageOf(tk)
                    THEN Settle([b EXCEPT !.st = [st EXCEPT !.allCommentsForMessage =
                                                      Forget(@, MessageOf(tk))]],
                                [tk EXCEPT !.steps = <<"fetchAllCommentsForMessage">> \o rest])
                    ELSE Settle(b, [tk EXCEPT !.steps = rest])
               [] label = "fetchAllCommentsForMessage" ->
                    \* if (state.value.allCommentsForMessage[messageId]) return
                    IF MessageOf(tk) \in DOMAIN st.allCommentsForMessage
                    THEN Settle(b, [tk EXCEPT !.steps = rest])
                    ELSE [b |-> b, tk |-> tk]
               [] label = "initDatabases:sync" ->
                    \* if (state.value.isOnline) { methods.startContinuousSync(); }
                    Settle(startContinuousSync(b), [tk EXCEPT !.steps = rest])
               [] label \in {"initDatabases:finally", "fetchAllData:finally"} ->
                    \* finally { state.value.isLoading = false; }
                    Settle([b EXCEPT !.st = [st EXCEPT !.isLoading = FALSE]],
                           [tk EXCEPT !.steps = rest])
               [] OTHER -> [b |-> b, tk |-> tk]

\* The step of task t ends: r is the application side and the task after the
\* continuation of the answered request, lg the log after the step.
Finish(t, r, lg) ==
    LET s == Settle(r.b, r.tk)
    IN  /\ s.b.made <= MaxHandlers
        /\ state' = s.b.st
        /\ liveSyncs' = s.b.live
        /\ handlersMade' = s.b.made
        /\ tasks' = [tasks EXCEPT ![t] = IF s.tk.steps = << >> THEN Idle ELSE s.tk]
        /\ log' = [lg EXCEPT !.ended = IF s.tk.steps = << >>
                                       THEN [op |-> s.tk.op, id |-> s.tk.id, wrote |-> s.tk.wrote]
                                       ELSE NoEnd]

After(b, tk) == [b |-> b, tk |-> tk]

WithState(st) == Bundle(st, liveSyncs, handlersMade)

\* The methods whose overlapping calls the log records.
OverlapWatched == {"toggleLike"}

\* A method is called: it takes the first free task.
FreeTask(t) == tasks[t].op = "idle" /\ \A u \in TaskIds : u < t => tasks[u].op # "idle"

Call(t, b, tk) ==
    /\ FreeTask(t)
    /\ Finish(t, After(b, tk),
              [Logged(NoEvent, 0) EXCEPT
                  !.overlapped = IF /\ tk.op \in OverlapWatched
                                    /\ \E u \in TaskIds : tasks[u].op = tk.op
                                 THEN @ \cup {tk.op} ELSE @])

\* The steps of fetchAllData() of each revision.
FetchAllDataSteps(v) ==
    IF v = "TheWelcome"
    THEN <<"fetchCountries", "fetchTopLikedMessages", "fetchAllData:if">>
    ELSE <<"P0:fetchCountries", "P0:fetchMessages", "P0:fetchComments",
           "fetchAllData:finally">>

\* part_000 fetchAllData(): state.value.isLoading = true before the first await.
EnterFetchAllData(v, b) ==
    IF v = "part_000" THEN [b EXCEPT !.st = [b.st EXCEPT !.isLoading = TRUE]] ELSE b


(***************************************************************************)
(* Start-up.                                                               *)
(***************************************************************************)
\* onMounted(() => {...}) of either revision, with the synchronous start of
\* initDatabases().
\* initDatabases() that starts the continuous sync before its one-shot
\* replication.
onMounted_SyncFirst(t) ==
    /\ ~state.mounted
    /\ variant = "TheWelcome"
    /\ Call(t, WithState([state EXCEPT !.mounted = TRUE, !.isLoading = TRUE, !.dbOpen = TRUE]),
            NewTask("initDatabases",
                    <<"createIndexes", "initDatabases:sync", "replicateFromRemote">>
                    \o FetchAllDataSteps(variant) \o <<"initDatabases:finally">>))
    /\ UNCHANGED <<variant, localDB, remoteDB, now, revSeq, remoteWrites>>

onMounted(t) ==
    /\ ~state.mounted
    /\ IF variant = "TheWelcome"
       THEN Call(t, WithState([state EXCEPT !.mounted = TRUE, !.isLoading = TRUE,
                                            !.dbOpen = TRUE]),
                 NewTask("initDatabases",
                         <<"createIndexes", "replicateFromRemote">>
                         \o FetchAllDataSteps(variant)
                         \o <<"initDatabases:sync", "initDatabases:finally">>))
       ELSE /\ t + 1 \in TaskIds
            /\ FreeTask(t)
            /\ LET b == syncDatabases(WithState([state EXCEPT !.mounted = TRUE,
                                                              !.dbOpen = TRUE]))
                   s == Settle(EnterFetchAllData(variant, b),
                               NewTask("fetchAllData", FetchAllDataSteps(variant)))
               IN  /\ s.b.made <= MaxHandlers
                   /\ state' = s.b.st
                   /\ liveSyncs' = s.b.live
                   /\ handlersMade' = s.b.made
                   /\ tasks' = [tasks EXCEPT ![t] = NewTask("createIndex", <<"createIndex">>),
                                             ![t + 1] = s.tk]
                   /\ log' = Logged(NoEvent, 0)
    /\ UNCHANGED <<variant, localDB, remoteDB, now, revSeq, remoteWrites>>

\* onMounted() where new PouchDB(...) throws.  TheWelcome: the catch of
\* initDatabases() logs and its finally sets isLoading to false, both handles
\* still null.  part_000: the exception leaves the hook before syncDatabases().
onMountedFailed ==
    /\ ~state.mounted
    /\ state' = [state EXCEPT !.mounted = TRUE]
    /\ log' = Logged([NoEvent EXCEPT !.op = "initDatabases", !.kind = "null",
                                     !.raised = (variant = "part_000")], 0)
    /\ UNCHANGED <<variant, localDB, remoteDB, liveSyncs, handlersMade, now, revSeq,
                   remoteWrites, tasks>>

\* createIndexes() of TheWelcome, createIndex() of part_000: the indexes change
\* the cost of a query and not its answer.
createIndexes(t) ==
    /\ Awaiting(t, "createIndexes") \/ Awaiting(t, "createIndex")
    /\ Finish(t, After(Here, Resumed(tasks[t])), Logged(NoEvent, 0))
    /\ UNCHANGED <<variant, localDB, remoteDB, now, revSeq, remoteWrites>>

\* replicateFromRemote(): localDB.replicate.from(remoteDB), once; a failure is
\* logged and the method returns.
replicateFromRemote(t) ==
    /\ Awaiting(t, "replicateFromRemote")
    /\ \E reachable \in BOOLEAN :
          /\ localDB' = IF reachable THEN MergeAll(localDB, remoteDB, DOMAIN remoteDB)
                        ELSE localDB
          /\ Finish(t, After(Here, Resumed(tasks[t])),
                    Logged([NoEvent EXCEPT !.op = "replicateFromRemote", !.kind = "once",
                                           !.ok = reachable], 0))
    /\ UNCHANGED <<variant, remoteDB, now, revSeq, remoteWrites>>

\* toggleOnlineOffline()
toggleOnlineOffline ==
    /\ IF variant = "TheWelcome" THEN state.mounted ELSE Rendered
    /\ LET \* startContinuousSync() has no null check: state.value.localDB.sync(...)
           \* on a null handle is a TypeError, isOnline being set already.
           raised == variant = "TheWelcome" /\ ~state.dbOpen /\ ~state.isOnline
           b == IF raised THEN WithState([state EXCEPT !.isOnline = TRUE])
                ELSE toggleBundle(variant, Here)
       IN  /\ b.made <= MaxHandlers
           /\ state' = b.st
           /\ liveSyncs' = b.live
           /\ handlersMade' = b.made
           /\ log' = [log EXCEPT
                  !.ended = NoEnd,
                  !.last = [NoEvent EXCEPT !.op = "toggleOnlineOffline",
                                           !.kind = IF b.st.isOnline THEN "online" ELSE "offline",
                                           !.raised = raised],
                  !.offlineTags = IF b.st.isOnline THEN {} ELSE @,
                  !.snap = IF b.st.isOnline THEN @
                           ELSE [taken |-> TRUE, clean |-> TRUE,
                                 local |-> localDB, remote |-> remoteDB]]
    /\ UNCHANGED <<variant, localDB, remoteDB, now, revSeq, remoteWrites, tasks>>

(***************************************************************************)
(* Continuous replication: a live stream copies one revision in one        *)
(* direction and emits 'change', whose callback calls fetchAllData().      *)
(***************************************************************************)
onChange(t) ==
    Call(t, EnterFetchAllData(variant, Here), NewTask("fetchAllData", FetchAllDataSteps(variant)))

Replicate(t) ==
    /\ liveSyncs # {}
    /\ \/ \E i \in Unreplicated(localDB, remoteDB) :
             /\ remoteDB' = Merge(remoteDB, localDB[i])
             /\ localDB' = localDB
       \/ \E i \in Unreplicated(remoteDB, localDB) :
             /\ localDB' = Merge(localDB, remoteDB[i])
             /\ remoteDB' = remoteDB
    /\ onChange(t)
    /\ UNCHANGED <<variant, now, revSeq, remoteWrites>>

\* The clock advances.
Tick ==
    /\ now < MaxTime
    /\ now' = now + 1
    /\ log' = Logged(NoEvent, 0)
    /\ UNCHANGED <<variant, state, localDB, remoteDB, liveSyncs, handlersMade, revSeq,
                   remoteWrites, tasks>>

(***************************************************************************)
(* The fetches.                                                            *)
(***************************************************************************)
\* fetchCountries() of TheWelcome
fetchCountries(t) ==
    /\ Awaiting(t, "fetchCountries")
    /\ LET docs == AllDocsByPrefix(localDB, "country")
       IN  Finish(t, After(WithState([state EXCEPT !.countries = docs]), Resumed(tasks[t])),
                  Logged(QueryEvent("fetchCountries", EmptyStr, docs), 0))
    /\ UNCHANGED <<variant, localDB, remoteDB, now, revSeq, remoteWrites>>

IsAny(d) == TRUE

\* fetchTopLikedMessages() without {likes: 'desc'} in its sort list.
TopLikedQuery_Unsorted(db, limit, skip) == Find(db, "message", IsAny, ById, limit, skip)

\* The answer to the find() of fetchTopLikedMessages:
\* selector {type: 'message'}, sort [{type: 'asc'}, {likes: 'desc'}], limit, skip
TopLikedQuery(db, limit, skip) == Find(db, "message", IsAny, ByLikesDesc, limit, skip)

\* The documents of a list that hold a file: the fetch awaits
\* loadMessageAttachments() for each of them.
HasAttachments(d) == d._attachments

\* fetchTopLikedMessages(loadMore) of TheWelcome, after its find(): the list
\* is assigned, the files of the documents that hold one are loaded, and
\* then hasMoreTopMessages and topMessagesOffset are set.
fetchTopLikedMessages(t) ==
    /\ Awaiting(t, "fetchTopLikedMessages") \/ Awaiting(t, "loadMoreTopMessages")
    /\ LET loadMore == Awaiting(t, "loadMoreTopMessages")
           docs == TopLikedQuery(localDB, topMessagesLimit, tasks[t].q.skip)
           listed == [state EXCEPT !.topLikedMessages = IF loadMore THEN @ \o docs ELSE docs]
           st == [listed EXCEPT
                    !.hasMoreTopMessages = (Len(docs) = topMessagesLimit),
                    !.topMessagesOffset = IF loadMore THEN @ + topMessagesLimit ELSE @]
           lg == [Logged(QueryEvent(IF loadMore THEN "loadMoreTopMessages"
                                    ELSE "fetchTopLikedMessages",
                                    EmptyStr, st.topLikedMessages), 0)
                    EXCEPT !.loads = IF loadMore THEN @ + 1 ELSE 0]
       IN  IF SelectSeq(docs, HasAttachments) = << >>
           THEN Finish(t, After(WithState(st), Resumed(tasks[t])), lg)
           ELSE Finish(t, After(WithState(listed),
                                [tasks[t] EXCEPT
                                    !.steps = <<IF loadMore THEN "loadMoreTopMessages:attachments"
                                                ELSE "fetchTopLikedMessages:attachments">>
                                              \o Tail(@),
                                    !.todo = Ids(SelectSeq(docs, HasAttachments)),
                                    !.acc = docs]), lg)
    /\ UNCHANGED <<variant, localDB, remoteDB, now, revSeq, remoteWrites>>

\* loadMoreTopMessages(), the button under a list that is not empty, shown
\* while hasMoreTopMessages
loadMoreTopMessages(t) ==
    /\ variant = "TheWelcome"
    /\ Rendered
    /\ state.topLikedMessages # << >>
    /\ state.hasMoreTopMessages
    /\ Call(t, Here, NewTask("loadMoreTopMessages", <<"loadMoreTopMessages">>))
    /\ UNCHANGED <<variant, localDB, remoteDB, now, revSeq, remoteWrites>>

\* new RegExp(term, 'i') found somewhere in s
RegexSearchI(term, s) ==
    \E i \in 0..(Len(s) - Len(term)) : RegexFullMatchI(term, SubSeq(s, i + 1, i + Len(term)))

\* The answer to the find() of fetchMessages, for the request q.
MessagesQuery(db, q) ==
    LET Matches(d) == /\ d.countryId = q.countryId
                      /\ q.term # EmptyStr => RegexSearchI(q.term, d.title)
    IN  IF q.sortBy = "likes"
        THEN Find(db, "message", Matches, ByLikesDesc, NoLimit, 0)
        ELSE Find(db, "message", Matches, ByCreatedDesc, NoLimit, 0)

\* The request fetchMessages() builds from the state.
MessagesRequest(st) ==
    [BlankQuery EXCEPT !.countryId = st.selectedCountryId,
                       !.term = Trim(st.searchMessageTerm), !.sortBy = st.sortBy]

\* fetchMessages() that drops the answer to a request the state no longer
\* asks for.
fetchMessages_LatestWins(t) ==
    /\ Awaiting(t, "fetchMessages")
    /\ LET docs == MessagesQuery(localDB, tasks[t].q)
           st == IF tasks[t].q = MessagesRequest(state)
                 THEN initCommentForms([state EXCEPT !.messages = docs], Ids(docs))
                 ELSE state
       IN  Finish(t, After(WithState(st), Resumed(tasks[t])),
                  Logged(QueryEvent("fetchMessages", EmptyStr, docs), 0))
    /\ UNCHANGED <<variant, localDB, remoteDB, now, revSeq, remoteWrites>>

\* fetchMessages() of TheWelcome, after its find(): the list is assigned, the
\* files of the messages that hold one are loaded, and then the comment form
\* of each message is initialised.
fetchMessages(t) ==
    /\ Awaiting(t, "fetchMessages")
    /\ LET docs == MessagesQuery(localDB, tasks[t].q)
           listed == [state EXCEPT !.messages = docs]
       IN  IF SelectSeq(docs, HasAttachments) = << >>
           THEN Finish(t, After(WithState(initCommentForms(listed, Ids(docs))),
                                Resumed(tasks[t])),
                       Logged(QueryEvent("fetchMessages", EmptyStr, docs), 0))
           ELSE Finish(t, After(WithState(listed),
                                [tasks[t] EXCEPT
                                    !.steps = <<"fetchMessages:attachments">> \o Tail(@),
                                    !.todo = Ids(SelectSeq(docs, HasAttachments))]),
                       Logged(QueryEvent("fetchMessages", EmptyStr, docs), 0))
    /\ UNCHANGED <<variant, localDB, remoteDB, now, revSeq, remoteWrites>>

\* await methods.loadMessageAttachments(message._id) in the loop of a fetch:
\* get() and getAttachment() fill the cache of URLs and change nothing else,
\* so the two awaits are one step here.  After the last message the fetch
\* runs on: fetchMessages() initialises the comment forms of the messages the
\* list holds by then, fetchTopLikedMessages() sets its two fields.
loadMessageAttachments(t) ==
    /\ \/ Awaiting(t, "fetchMessages:attachments")
       \/ Awaiting(t, "fetchTopLikedMessages:attachments")
       \/ Awaiting(t, "loadMoreTopMessages:attachments")
       \/ Awaiting(t, "uploadAttachment:load")
    /\ LET tk == tasks[t]
           done == [tk EXCEPT !.todo = << >>, !.acc = << >>]
           st == CASE Awaiting(t, "fetchMessages:attachments") ->
                        initCommentForms(state, Ids(state.messages))
                   [] Awaiting(t, "uploadAttachment:load") -> state
                   [] OTHER ->
                        [state EXCEPT
                           !.hasMoreTopMessages = (Len(tk.acc) = topMessagesLimit),
                           !.topMessagesOffset =
                               IF Awaiting(t, "loadMoreTopMessages:attachments")
                               THEN @ + topMessagesLimit ELSE @]
       IN  IF tk.todo # << >> /\ Tail(tk.todo) # << >>
           THEN Finish(t, After(Here, [tk EXCEPT !.todo = Tail(@)]), Logged(NoEvent, 0))
           ELSE Finish(t, After(WithState(st), Resumed(done)), Logged(NoEvent, 0))
    /\ UNCHANGED <<variant, localDB, remoteDB, now, revSeq, remoteWrites>>

\* The answer to a find() for the comments of a message, oldest first.
CommentsQuery(db, messageId, limit) ==
    LET Matches(d) == d.messageId = messageId
    IN  Find(db, "comment", Matches, ByCreatedAsc, limit, 0)

\* fetchComments() of TheWelcome: one find() with limit 1 for each message.
fetchComments(t) ==
    /\ Awaiting(t, "fetchComments") \/ Awaiting(t, "fetchComments:find")
    /\ LET tk == tasks[t]
           docs == CommentsQuery(localDB, Head(tk.todo), 1)
           acc == tk.acc \o docs
       IN  IF Tail(tk.todo) # << >>
           THEN Finish(t, After(Here, [tk EXCEPT !.todo = Tail(@), !.acc = acc,
                                                 !.steps = <<"fetchComments:find">>
                                                           \o Tail(@)]),
                       Logged(QueryEvent("fetchComments", EmptyStr, docs), 0))
           ELSE Finish(t, After(WithState([state EXCEPT !.comments = acc]),
                                Resumed([tk EXCEPT !.todo = << >>, !.acc = << >>])),
                       Logged(QueryEvent("fetchComments", EmptyStr, docs), 0))
    /\ UNCHANGED <<variant, localDB, remoteDB, now, revSeq, remoteWrites>>

\* fetchCountries(), fetchMessages(), fetchComments() of part_000: allDocs()
\* over the identifiers that start with the type and an underscore.
P0_fetch(t) ==
    /\ \E prefix \in DocTypes :
          /\ Awaiting(t, CASE prefix = "country" -> "P0:fetchCountries"
                           [] prefix = "message" -> "P0:fetchMessages"
                           [] OTHER -> "P0:fetchComments")
          /\ LET docs == AllDocsByPrefix(localDB, prefix)
                 st == CASE prefix = "country" -> [state EXCEPT !.countries = docs]
                         [] prefix = "message" -> [state EXCEPT !.messages = docs]
                         [] OTHER -> [state EXCEPT !.comments = docs]
             IN  Finish(t, After(WithState(st), Resumed(tasks[t])),
                        Logged(QueryEvent("fetch", EmptyStr, docs), 0))
    /\ UNCHANGED <<variant, localDB, remoteDB, now, revSeq, remoteWrites>>


(***************************************************************************)
(* Writes to the local store.                                              *)
(***************************************************************************)
Stored(db, id) == IF id \in DOMAIN db THEN db[id] ELSE NoDoc

\* The await of a localDB.put(doc) (remove = FALSE) or localDB.remove(doc)
\* (remove = TRUE) of task t at label: accepted, the store holds the new
\* revision and the method goes on with the state OnOk; rejected (stale
\* token), the exception reaches the catch of the method, which leaves the
\* state as OnFail.
WriteStep(t, label, kind, remove, OnOk(_), OnFail(_)) ==
    /\ Awaiting(t, label)
    /\ LET tk == tasks[t]
           doc == tk.doc
           tag == revSeq + 1
           db2 == IF remove THEN DbRemove(localDB, doc, tag) ELSE DbPut(localDB, doc, tag)
           before == Stored(localDB, doc._id)
           read == IF tk.acc = << >> THEN NoDoc ELSE tk.acc[1]
       IN  IF RevMatches(localDB, doc)
           THEN /\ revSeq < MaxRevs
                /\ localDB' = db2
                /\ revSeq' = tag
                /\ Finish(t, After(WithState(OnOk(state)), Resumed([tk EXCEPT !.wrote = TRUE])),
                          Logged([Event(tk.op, kind, TRUE, before, db2[doc._id], read)
                                    EXCEPT !.form = tk.form], tag))
           ELSE /\ localDB' = localDB
                /\ revSeq' = revSeq
                /\ Finish(t, After(WithState(OnFail(state)), Caught(tk)),
                          Logged([Event(tk.op, kind, FALSE, before, before, read)
                                    EXCEPT !.form = tk.form], 0))
    /\ UNCHANGED <<variant, remoteDB, now, remoteWrites>>

\* The form values an update applies: updateComment() of TheWelcome holds the
\* form object it read when called, the others read the form after their get().
FormValues(v, st, tk) ==
    CASE tk.op = "updateCountry" ->
            [BlankValues EXCEPT !.name = st.newCountry.name, !.region = st.newCountry.region]
      [] tk.op = "updateMessage" ->
            [BlankValues EXCEPT !.title = st.newMessage.title, !.content = st.newMessage.content]
      [] tk.op = "updateComment" /\ v = "part_000" ->
            [BlankValues EXCEPT !.content = st.newComment.content, !.author = st.newComment.author]
      [] OTHER -> tk.form

\* What a point lookup gives its caller: an exception, or a document, or
\* null (NoDoc).
Outcome(raised, doc) == [raised |-> raised, doc |-> doc]

\* await localDB.get(id), which rejects where the store holds no live document
\* under id.
TryGet(db, id) ==
    IF DbGet(db, id) = NoDoc THEN Outcome(TRUE, NoDoc) ELSE Outcome(FALSE, DbGet(db, id))

\* getDocument(id) of part_000 without its try/catch.
getDocument_NoCatch(db, id) == IF id = NoId THEN Outcome(FALSE, NoDoc) ELSE TryGet(db, id)

\* getDocument(id) of part_000: null for no id, null where get() rejects.
getDocument(db, id) ==
    IF id = NoId THEN Outcome(FALSE, NoDoc)
    ELSE IF TryGet(db, id).raised THEN Outcome(FALSE, NoDoc)
    ELSE TryGet(db, id)

\* getCountryById(id), getMessageById(id) of part_000: as getDocument, and
\* null for a document of another type.
getByIdOfType(db, id, type) ==
    IF id = NoId THEN Outcome(FALSE, NoDoc)
    ELSE IF TryGet(db, id).raised THEN Outcome(FALSE, NoDoc)
    ELSE IF TryGet(db, id).doc.type = type THEN TryGet(db, id)
    ELSE Outcome(FALSE, NoDoc)

getCountryById(db, id) == getByIdOfType(db, id, "country")

getMessageById(db, id) == getByIdOfType(db, id, "message")

\* The lookup a method starts with: getDocument(id) in part_000, whose callers
\* return on null; localDB.get(id) in TheWelcome, whose rejection reaches the
\* catch of the method.
Lookup(v, db, id) == IF v = "part_000" THEN getDocument(db, id) ELSE TryGet(db, id)

\* The await of a lookup of task t at label: the method goes on with the
\* document Patched to write next, or ends where the lookup gave none.
ReadStep(t, label, Patched(_)) ==
    /\ Awaiting(t, label)
    /\ LET tk == tasks[t]
           r == Lookup(variant, localDB, tk.id)
           d == r.doc
       IN  IF r.raised \/ d = NoDoc
           THEN Finish(t, After(Here, Caught(tk)),
                       Logged([Event(tk.op, "get", FALSE, NoDoc, NoDoc, NoDoc)
                                 EXCEPT !.raised = r.raised], 0))
           ELSE Finish(t, After(Here, Resumed([tk EXCEPT !.doc = Patched(d), !.acc = <<d>>,
                                                         !.form = FormValues(variant, state, tk)])),
                       Logged(Event(tk.op, "get", TRUE, d, d, d), 0))
    /\ UNCHANGED <<variant, localDB, remoteDB, now, revSeq, remoteWrites>>

Same(x) == x

(***************************************************************************)
(* TheWelcome: countries.                                                  *)
(***************************************************************************)
Regions == {<<"A">>, <<"a">>, <<"A", " ">>, <<".">>}

\* v-model on the fields of state.newCountry
inputCountry ==
    /\ variant = "TheWelcome"
    /\ Rendered
    /\ \E name \in Names, region \in Regions :
          /\ state.newCountry # [name |-> name, region |-> region]
          /\ state' = [state EXCEPT !.newCountry = [name |-> name, region |-> region]]
    /\ log' = Logged(NoEvent, 0)
    /\ UNCHANGED <<variant, localDB, remoteDB, liveSyncs, handlersMade, now, revSeq,
                   remoteWrites, tasks>>

resetCountryForm(st) == [st EXCEPT !.newCountry = BlankCountryForm]

\* createCountry() with another prefix than the type in its _id.
NewCountryDoc_OtherPrefix(st, at) ==
    CountryDoc(MkId("pays", at, 0), st.newCountry.name, st.newCountry.region, at)

\* The document createCountry() builds.
NewCountryDoc(st, at) ==
    CountryDoc(MkId("country", at, 0), st.newCountry.name, st.newCountry.region, at)

createCountry(t) ==
    /\ variant = "TheWelcome"
    /\ Rendered
    /\ state.editingCountryId = NoId
    /\ Filled(state.newCountry)
    /\ Call(t, Here, [NewTask("createCountry", <<"createCountry:put", "fetchCountries">>)
                        EXCEPT !.doc = NewCountryDoc(state, now)])
    /\ UNCHANGED <<variant, localDB, remoteDB, now, revSeq, remoteWrites>>

\* createCountry() with resetCountryForm() in a finally block.
createCountryPut_ResetsAlways(t) ==
    /\ variant = "TheWelcome"
    /\ WriteStep(t, "createCountry:put", "create", FALSE, resetCountryForm, resetCountryForm)

createCountryPut(t) ==
    /\ variant = "TheWelcome"
    /\ WriteStep(t, "createCountry:put", "create", FALSE, resetCountryForm, Same)

startEditingCountry ==
    /\ variant = "TheWelcome"
    /\ Rendered
    /\ \E country \in Range(state.countries) :
          /\ state.editingCountryId # country._id
          /\ state' = [state EXCEPT !.editingCountryId = country._id,
                                    !.newCountry = [name |-> country.name,
                                                    region |-> country.region]]
    /\ log' = Logged(NoEvent, 0)
    /\ UNCHANGED <<variant, localDB, remoteDB, liveSyncs, handlersMade, now, revSeq,
                   remoteWrites, tasks>>

\* Object.assign(doc, {...state.value.newCountry, ..., updatedAt})
updateCountryPatch(st, doc, at) ==
    [doc EXCEPT !.name = st.newCountry.name, !.region = st.newCountry.region,
                !.updatedAt = at]

updateCountry(t) ==
    /\ variant = "TheWelcome"
    /\ Rendered
    /\ state.editingCountryId # NoId
    /\ Filled(state.newCountry)
    /\ Call(t, Here, [NewTask("updateCountry",
                              <<"updateCountry:get", "updateCountry:put", "fetchCountries">>)
                        EXCEPT !.id = state.editingCountryId])
    /\ UNCHANGED <<variant, localDB, remoteDB, now, revSeq, remoteWrites>>

updateCountryGet(t) ==
    /\ variant = "TheWelcome"
    /\ LET Patched(d) == updateCountryPatch(state, d, now)
       IN  ReadStep(t, "updateCountry:get", Patched)

updateCountryDone(st) == [resetCountryForm(st) EXCEPT !.editingCountryId = NoId]

updateCountryPut(t) ==
    /\ variant = "TheWelcome"
    /\ WriteStep(t, "updateCountry:put", "update", FALSE, updateCountryDone, Same)

\* deleteCountry(id), the user having confirmed
deleteCountry(t) ==
    /\ variant = "TheWelcome"
    /\ Rendered
    /\ \E country \in Range(state.countries) :
          Call(t, Here, [NewTask("deleteCountry",
                                 <<"deleteCountry:get", "deleteCountry:remove", "fetchCountries">>)
                           EXCEPT !.id = country._id])
    /\ UNCHANGED <<variant, localDB, remoteDB, now, revSeq, remoteWrites>>

deleteCountryGet(t) ==
    /\ variant = "TheWelcome"
    /\ ReadStep(t, "deleteCountry:get", Same)

\* deleteCountry() with put(doc) where it calls remove(doc).
deleteCountryRemove_Put(t) ==
    /\ variant = "TheWelcome"
    /\ WriteStep(t, "deleteCountry:remove", "delete", FALSE, Same, Same)

\* deleteCountry() that removes the messages of the country with it.
deleteCountryRemove_Cascade(t) ==
    /\ variant = "TheWelcome"
    /\ Awaiting(t, "deleteCountry:remove")
    /\ revSeq < MaxRevs
    /\ LET tk == tasks[t]
           db2 == DbRemove(localDB, tk.doc, revSeq + 1)
           db3 == [i \in DOMAIN db2 |->
                      IF db2[i].type = "message" /\ db2[i].countryId = tk.id
                      THEN [db2[i] EXCEPT !._deleted = TRUE] ELSE db2[i]]
       IN  /\ localDB' = db3
           /\ revSeq' = revSeq + 1
           /\ Finish(t, After(Here, Resumed([tk EXCEPT !.wrote = TRUE])),
                     Logged(Event(tk.op, "delete", TRUE, Stored(localDB, tk.id), db3[tk.id],
                                  tk.doc), revSeq + 1))
    /\ UNCHANGED <<variant, remoteDB, now, remoteWrites>>

deleteCountryRemove(t) ==
    /\ variant = "TheWelcome"
    /\ LET Cleared(st) ==
               IF st.selectedCountryId = tasks[t].id
               THEN [st EXCEPT !.selectedCountryId = NoId, !.messages = << >>,
                               !.comments = << >>]
               ELSE st
       IN  WriteStep(t, "deleteCountry:remove", "delete", TRUE, Cleared, Same)

\* watch(() => state.value.searchMessageTerm, ...) and watch(() => state.value.sortBy, ...):
\* how many of the two callbacks are queued by a change of the state from old
\* to st; each runs once the synchronous code has ended, and calls
\* fetchMessages() where a country is selected.
Watchers(old, st) ==
    IF st.selectedCountryId = NoId THEN 0
    ELSE (IF st.searchMessageTerm # old.searchMessageTerm THEN 1 ELSE 0)
         + (IF st.sortBy # old.sortBy THEN 1 ELSE 0)

\* selectCountry(countryId): fetchMessages() and fetchComments() are both
\* called, neither awaited; then the watchers of the two fields it reset.
selectCountry(t) ==
    /\ variant = "TheWelcome"
    /\ Rendered
    /\ FreeTask(t)
    /\ \E country \in Range(state.countries) :
          LET st == [state EXCEPT !.selectedCountryId = country._id,
                                  !.searchMessageTerm = EmptyStr, !.sortBy = "date"]
              s1 == Settle(WithState(st), NewTask("fetchMessages", <<"fetchMessages">>))
              s2 == Settle(s1.b, NewTask("fetchComments", <<"fetchComments">>))
              last == t + 1 + Watchers(state, st)
          IN  /\ state.selectedCountryId # country._id
              /\ \A u \in (t + 1)..last : u \in TaskIds /\ tasks[u].op = "idle"
              /\ state' = s2.b.st
              /\ tasks' = [u \in TaskIds |->
                     IF u = t \/ u \in (t + 2)..last
                     THEN (IF s1.tk.steps = << >> THEN Idle ELSE s1.tk)
                     ELSE IF u = t + 1
                     THEN (IF s2.tk.steps = << >> THEN Idle ELSE s2.tk)
                     ELSE tasks[u]]
    /\ log' = Logged(NoEvent, 0)
    /\ UNCHANGED <<variant, localDB, remoteDB, liveSyncs, handlersMade, now, revSeq,
                   remoteWrites>>

MessageTerms == {EmptyStr, <<"a">>, <<" ">>}

\* v-model on state.searchMessageTerm, in the section of the selected country,
\* and the watcher of the field.
inputSearchMessageTerm(t) ==
    /\ variant = "TheWelcome"
    /\ Rendered
    /\ state.selectedCountryId # NoId
    /\ \E term \in MessageTerms :
          /\ term # state.searchMessageTerm
          /\ Call(t, WithState([state EXCEPT !.searchMessageTerm = term]),
                  NewTask("fetchMessages", <<"fetchMessages">>))
    /\ UNCHANGED <<variant, localDB, remoteDB, now, revSeq, remoteWrites>>

\* v-model on state.sortBy, in the section of the selected country, and the
\* watcher of the field.
inputSortBy(t) ==
    /\ variant = "TheWelcome"
    /\ Rendered
    /\ state.selectedCountryId # NoId
    /\ \E sortBy \in {"date", "likes"} :
          /\ sortBy # state.sortBy
          /\ Call(t, WithState([state EXCEPT !.sortBy = sortBy]),
                  NewTask("fetchMessages", <<"fetchMessages">>))
    /\ UNCHANGED <<variant, localDB, remoteDB, now, revSeq, remoteWrites>>


(***************************************************************************)
(* TheWelcome: messages.                                                   *)
(***************************************************************************)
\* v-model on state.newMessage.title and .content
inputMessage ==
    /\ Rendered
    /\ \E title \in Texts, content \in Names :
          /\ state.newMessage # [title |-> title, content |-> content]
          /\ state' = [state EXCEPT !.newMessage = [title |-> title, content |-> content]]
    /\ log' = Logged(NoEvent, 0)
    /\ UNCHANGED <<variant, localDB, remoteDB, liveSyncs, handlersMade, now, revSeq,
                   remoteWrites, tasks>>

resetMessageForm(st) == [st EXCEPT !.newMessage = BlankForm]

\* The document createMessage() of TheWelcome builds.
NewMessageDoc(st, at) ==
    MessageDoc(MkId("message", at, 0), st.selectedCountryId, st.newMessage.title,
               st.newMessage.content, 0, at)

createMessage(t) ==
    /\ variant = "TheWelcome"
    /\ Rendered
    /\ state.selectedCountryId # NoId
    /\ state.editingMessageId = NoId
    /\ Filled(state.newMessage)
    /\ Call(t, Here, [NewTask("createMessage",
                              <<"createMessage:put", "fetchMessages", "fetchTopLikedMessages">>)
                        EXCEPT !.doc = NewMessageDoc(state, now)])
    /\ UNCHANGED <<variant, localDB, remoteDB, now, revSeq, remoteWrites>>

createMessagePut(t) ==
    /\ variant = "TheWelcome"
    /\ WriteStep(t, "createMessage:put", "create", FALSE, resetMessageForm, Same)

startEditingMessage ==
    /\ variant = "TheWelcome"
    /\ Rendered
    /\ \E message \in Range(state.messages) :
          /\ state.editingMessageId # message._id
          /\ state' = [state EXCEPT !.editingMessageId = message._id,
                                    !.newMessage = [title |-> message.title,
                                                    content |-> message.content]]
    /\ log' = Logged(NoEvent, 0)
    /\ UNCHANGED <<variant, localDB, remoteDB, liveSyncs, handlersMade, now, revSeq,
                   remoteWrites, tasks>>

\* updateMessage() without its assignment to doc.content.
updateMessagePatch_TitleOnly(st, doc, at) ==
    [doc EXCEPT !.title = st.newMessage.title, !.updatedAt = at]

\* doc.title = ...; doc.content = ...; doc.updatedAt = ...
updateMessagePatch(st, doc, at) ==
    [doc EXCEPT !.title = st.newMessage.title, !.content = st.newMessage.content,
                !.updatedAt = at]

updateMessage(t) ==
    /\ variant = "TheWelcome"
    /\ Rendered
    /\ state.editingMessageId # NoId
    /\ Filled(state.newMessage)
    /\ Call(t, Here, [NewTask("updateMessage",
                              <<"updateMessage:get", "updateMessage:put", "fetchMessages">>)
                        EXCEPT !.id = state.editingMessageId])
    /\ UNCHANGED <<variant, localDB, remoteDB, now, revSeq, remoteWrites>>

updateMessageGet(t) ==
    /\ variant = "TheWelcome"
    /\ LET Patched(d) == updateMessagePatch(state, d, now)
       IN  ReadStep(t, "updateMessage:get", Patched)

updateMessageDone(st) == [resetMessageForm(st) EXCEPT !.editingMessageId = NoId]

\* updateMessage() with a put() that takes the token the store holds now
\* where it passes the token it read.
updateMessagePut_Forced(t) ==
    /\ variant = "TheWelcome"
    /\ Awaiting(t, "updateMessage:put")
    /\ revSeq < MaxRevs
    /\ LET tk == tasks[t]
           before == Stored(localDB, tk.doc._id)
           doc == [tk.doc EXCEPT !._rev = CurrentRev(localDB, tk.doc._id)]
           db2 == DbPut(localDB, doc, revSeq + 1)
       IN  /\ localDB' = db2
           /\ revSeq' = revSeq + 1
           /\ Finish(t, After(WithState(updateMessageDone(state)),
                              Resumed([tk EXCEPT !.wrote = TRUE])),
                     Logged([Event(tk.op, "update", TRUE, before, db2[doc._id], tk.acc[1])
                               EXCEPT !.form = tk.form], revSeq + 1))
    /\ UNCHANGED <<variant, remoteDB, now, remoteWrites>>

updateMessagePut(t) ==
    /\ variant = "TheWelcome"
    /\ WriteStep(t, "updateMessage:put", "update", FALSE, updateMessageDone, Same)

\* uploadAttachment(messageId), a file having been selected for a message of
\* the list: get(), putAttachment() with the token read, fetchMessages(),
\* loadMessageAttachments()
uploadAttachment(t) ==
    /\ variant = "TheWelcome"
    /\ Rendered
    /\ \E message \in Range(state.messages) :
          Call(t, Here, [NewTask("uploadAttachment",
                                 <<"uploadAttachment:get", "uploadAttachment:put",
                                   "fetchMessages", "uploadAttachment:load">>)
                           EXCEPT !.id = message._id])
    /\ UNCHANGED <<variant, localDB, remoteDB, now, revSeq, remoteWrites>>

uploadAttachmentGet(t) ==
    /\ variant = "TheWelcome"
    /\ LET Patched(d) == [d EXCEPT !._attachments = TRUE]
       IN  ReadStep(t, "uploadAttachment:get", Patched)

uploadAttachmentPut(t) ==
    /\ variant = "TheWelcome"
    /\ WriteStep(t, "uploadAttachment:put", "attach", FALSE, Same, Same)

\* deleteMessage(id) of TheWelcome, the user having confirmed
deleteMessage(t) ==
    /\ variant = "TheWelcome"
    /\ Rendered
    /\ \E message \in Range(state.messages) :
          Call(t, Here, [NewTask("deleteMessage",
                                 <<"deleteMessage:get", "deleteMessage:remove",
                                   "deleteMessage:find", "deleteMessage:removeComment",
                                   "fetchMessages", "fetchComments", "fetchTopLikedMessages">>)
                           EXCEPT !.id = message._id])
    /\ UNCHANGED <<variant, localDB, remoteDB, now, revSeq, remoteWrites>>

deleteMessageGet(t) ==
    /\ variant = "TheWelcome"
    /\ ReadStep(t, "deleteMessage:get", Same)

deleteMessageRemove(t) ==
    /\ variant = "TheWelcome"
    /\ WriteStep(t, "deleteMessage:remove", "delete", TRUE, Same, Same)

\* The comments deleteMessage() of TheWelcome finds to remove:
\* find({selector: {type: 'comment', messageId: id}})
CascadeQuery(db, id) ==
    LET Matches(d) == d.messageId = id
    IN  Find(db, "comment", Matches, ById, NoLimit, 0)

deleteMessageFind(t) ==
    /\ Awaiting(t, "deleteMessage:find")
    /\ LET tk == tasks[t]
           docs == CascadeQuery(localDB, tk.id)
       IN  Finish(t, After(Here, [tk EXCEPT !.acc = docs,
                                            !.steps = IF docs = << >> THEN Tail(Tail(@))
                                                      ELSE Tail(@)]),
                  Logged(QueryEvent("deleteMessage", EmptyStr, docs), 0))
    /\ UNCHANGED <<variant, localDB, remoteDB, now, revSeq, remoteWrites>>

\* for (const comment of commentsResult.docs) await localDB.remove(comment)
deleteMessageRemoveComment(t) ==
    /\ Awaiting(t, "deleteMessage:removeComment")
    /\ LET tk == tasks[t]
           doc == Head(tk.acc)
           tag == revSeq + 1
           db2 == DbRemove(localDB, doc, tag)
       IN  IF RevMatches(localDB, doc)
           THEN /\ revSeq < MaxRevs
                /\ localDB' = db2
                /\ revSeq' = tag
                /\ Finish(t, After(Here, [tk EXCEPT !.acc = Tail(@),
                                                    !.steps = IF Tail(tk.acc) = << >>
                                                              THEN Tail(@) ELSE @]),
                          Logged(Event(tk.op, "cascade", TRUE, localDB[doc._id],
                                       db2[doc._id], doc), tag))
           ELSE /\ localDB' = localDB
                /\ revSeq' = revSeq
                /\ Finish(t, After(Here, Caught(tk)),
                          Logged(Event(tk.op, "cascade", FALSE, Stored(localDB, doc._id),
                                       Stored(localDB, doc._id), doc), 0))
    /\ UNCHANGED <<variant, remoteDB, now, remoteWrites>>

Max(a, b) == IF a >= b THEN a ELSE b

\* toggleLike() without Math.max(0, ...) in its unlike branch.
toggleLikeDoc_NoClamp(doc, liked) ==
    IF liked THEN [doc EXCEPT !.likes = doc.likes - 1]
    ELSE [doc EXCEPT !.likes = doc.likes + 1]

\* toggleLike() with the like branch in both cases.
toggleLikeDoc_OnlyUp(doc, liked) == [doc EXCEPT !.likes = doc.likes + 1]

\* The document toggleLike() writes for the document it read.
toggleLikeDoc(doc, liked) ==
    IF liked THEN [doc EXCEPT !.likes = Max(0, doc.likes - 1)]
    ELSE [doc EXCEPT !.likes = doc.likes + 1]

\* toggleLike(message)
toggleLike(t) ==
    /\ variant = "TheWelcome"
    /\ Rendered
    /\ \E message \in Range(state.messages) :
          Call(t, Here, [NewTask("toggleLike",
                                 <<"toggleLike:get", "toggleLike:put", "fetchMessages",
                                   "fetchTopLikedMessages">>)
                           EXCEPT !.id = message._id])
    /\ UNCHANGED <<variant, localDB, remoteDB, now, revSeq, remoteWrites>>

toggleLikeGet(t) ==
    /\ Awaiting(t, "toggleLike:get")
    /\ LET tk == tasks[t]
           d == DbGet(localDB, tk.id)
           liked == tk.id \in state.userLikedMessages
           st == [state EXCEPT !.userLikedMessages =
                      IF liked THEN @ \ {tk.id} ELSE @ \cup {tk.id}]
       IN  IF d = NoDoc
           THEN Finish(t, After(Here, Caught(tk)),
                       Logged(Event(tk.op, "get", FALSE, NoDoc, NoDoc, NoDoc), 0))
           ELSE Finish(t, After(WithState(st),
                                Resumed([tk EXCEPT !.doc = toggleLikeDoc(d, liked),
                                                   !.acc = <<d>>])),
                       Logged(Event(tk.op, "get", TRUE, d, d, d), 0))
    /\ UNCHANGED <<variant, localDB, remoteDB, now, revSeq, remoteWrites>>

toggleLikePut(t) ==
    /\ variant = "TheWelcome"
    /\ WriteStep(t, "toggleLike:put", "like", FALSE, Same, Same)


(***************************************************************************)
(* TheWelcome: comments.                                                   *)
(***************************************************************************)
\* What a user types into a comment form: the second one is blank once
\* trimmed, the third carries spaces around its text.
CommentInputs ==
    {[content |-> <<"a">>, author |-> <<"A">>],
     [content |-> <<" ">>, author |-> <<"A">>],
     [content |-> <<" ", "A">>, author |-> <<"a", " ">>]}

\* v-model on state.commentForms[message._id]
inputComment ==
    /\ variant = "TheWelcome"
    /\ Rendered
    /\ \E message \in Range(state.messages), form \in CommentInputs :
          /\ message._id \in DOMAIN state.commentForms
          /\ state.commentForms[message._id] # form
          /\ state' = [state EXCEPT !.commentForms[message._id] = form]
    /\ log' = Logged(NoEvent, 0)
    /\ UNCHANGED <<variant, localDB, remoteDB, liveSyncs, handlersMade, now, revSeq,
                   remoteWrites, tasks>>

\* if (!form.content?.trim() || !form.author?.trim())
BlankOnceTrimmed(form) == Trim(form.content) = EmptyStr \/ Trim(form.author) = EmptyStr

Alerted(op) == [NoEvent EXCEPT !.op = op, !.kind = "alert"]

\* The document createComment(messageId) of TheWelcome builds.
NewCommentDoc(form, messageId, at, rnd) ==
    CommentDoc(MkId("comment", at, rnd), messageId, Trim(form.content), Trim(form.author), at)

createComment(t) ==
    /\ variant = "TheWelcome"
    /\ Rendered
    /\ \E message \in Range(state.messages), rnd \in 1..MaxRnd :
          LET st == initCommentForm(state, message._id)
              form == st.commentForms[message._id]
          IN  /\ Filled(form)
              /\ IF BlankOnceTrimmed(form)
                 THEN /\ FreeTask(t)
                      /\ Finish(t, After(WithState(st), NewTask("createComment", << >>)),
                                Logged(Alerted("createComment"), 0))
                 ELSE Call(t, WithState(st),
                           [NewTask("createComment",
                                    <<"createComment:put", "fetchComments", "refreshExpanded">>)
                              EXCEPT !.id = message._id,
                                     !.doc = NewCommentDoc(form, message._id, now, rnd)])
    /\ UNCHANGED <<variant, localDB, remoteDB, now, revSeq, remoteWrites>>

createCommentPut(t) ==
    /\ variant = "TheWelcome"
    /\ LET Cleared(st) == [st EXCEPT !.commentForms =
                              [i \in DOMAIN @ \cup {tasks[t].id} |->
                                  IF i = tasks[t].id THEN BlankCommentForm ELSE @[i]]]
       IN  WriteStep(t, "createComment:put", "create", FALSE, Cleared, Same)

\* startEditingComment(comment), from the first comment of a message or from
\* its expanded list
ShownComments(st) ==
    Range(st.comments)
    \cup UNION {Range(st.allCommentsForMessage[m]) : m \in DOMAIN st.allCommentsForMessage}

startEditingComment ==
    /\ variant = "TheWelcome"
    /\ Rendered
    /\ \E comment \in ShownComments(state) :
          /\ state.editingCommentId # comment._id
          /\ state' = [state EXCEPT !.editingCommentId = comment._id,
                                    !.editingCommentData = [content |-> comment.content,
                                                            author |-> comment.author]]
    /\ log' = Logged(NoEvent, 0)
    /\ UNCHANGED <<variant, localDB, remoteDB, liveSyncs, handlersMade, now, revSeq,
                   remoteWrites, tasks>>

\* v-model on state.editingCommentData.  updateComment() keeps a reference to
\* that object across its get(); the model has the user type before the click
\* and not between the click and the answer of the get().
inputEditComment ==
    /\ variant = "TheWelcome"
    /\ Rendered
    /\ state.editingCommentId # NoId
    /\ \A t \in TaskIds : ~Awaiting(t, "updateComment:get")
    /\ \E form \in CommentInputs :
          /\ state.editingCommentData # form
          /\ state' = [state EXCEPT !.editingCommentData = form]
    /\ log' = Logged(NoEvent, 0)
    /\ UNCHANGED <<variant, localDB, remoteDB, liveSyncs, handlersMade, now, revSeq,
                   remoteWrites, tasks>>

\* doc.content = editData.content.trim(); doc.author = ...; doc.updatedAt = ...
updateCommentPatch(form, doc, at) ==
    [doc EXCEPT !.content = Trim(form.content), !.author = Trim(form.author),
                !.updatedAt = at]

updateComment(t) ==
    /\ variant = "TheWelcome"
    /\ Rendered
    /\ state.editingCommentId # NoId
    /\ IF BlankOnceTrimmed(state.editingCommentData)
       THEN /\ FreeTask(t)
            /\ Finish(t, After(Here, NewTask("updateComment", << >>)),
                      Logged(Alerted("updateComment"), 0))
       ELSE Call(t, Here,
                 [NewTask("updateComment",
                          <<"updateComment:get", "updateComment:put", "fetchComments",
                            "refreshExpanded">>)
                    EXCEPT !.id = state.editingCommentId,
                           !.form = [BlankValues EXCEPT
                                        !.content = state.editingCommentData.content,
                                        !.author = state.editingCommentData.author]])
    /\ UNCHANGED <<variant, localDB, remoteDB, now, revSeq, remoteWrites>>

updateCommentGet(t) ==
    /\ variant = "TheWelcome"
    /\ LET Patched(d) == updateCommentPatch(tasks[t].form, d, now)
       IN  ReadStep(t, "updateComment:get", Patched)

updateCommentDone(st) ==
    [st EXCEPT !.editingCommentId = NoId, !.editingCommentData = BlankCommentForm]

updateCommentPut(t) ==
    /\ variant = "TheWelcome"
    /\ WriteStep(t, "updateComment:put", "update", FALSE, updateCommentDone, Same)

\* deleteComment(comment) of TheWelcome, the user having confirmed
deleteComment(t) ==
    /\ variant = "TheWelcome"
    /\ Rendered
    /\ \E comment \in ShownComments(state) :
          Call(t, Here, [NewTask("deleteComment",
                                 <<"deleteComment:get", "deleteComment:remove",
                                   "fetchComments", "refreshExpanded">>)
                           EXCEPT !.id = comment._id])
    /\ UNCHANGED <<variant, localDB, remoteDB, now, revSeq, remoteWrites>>

deleteCommentGet(t) ==
    /\ variant = "TheWelcome"
    /\ ReadStep(t, "deleteComment:get", Same)

deleteCommentRemove(t) ==
    /\ variant = "TheWelcome"
    /\ WriteStep(t, "deleteComment:remove", "delete", TRUE, Same, Same)

\* toggleCommentsVisibility(messageId)
toggleCommentsVisibility(t) ==
    /\ variant = "TheWelcome"
    /\ Rendered
    /\ \E message \in Range(state.messages) :
          IF state.expandedMessageId = message._id
          THEN /\ FreeTask(t)
               /\ Finish(t, After(WithState([state EXCEPT !.expandedMessageId = NoId]),
                                  NewTask("toggleCommentsVisibility", << >>)),
                         Logged(NoEvent, 0))
          ELSE Call(t, WithState([state EXCEPT !.expandedMessageId = message._id]),
                    [NewTask("toggleCommentsVisibility", <<"fetchAllCommentsForMessage">>)
                       EXCEPT !.id = message._id])
    /\ UNCHANGED <<variant, localDB, remoteDB, now, revSeq, remoteWrites>>

\* fetchAllCommentsForMessage(messageId), after its find()
fetchAllCommentsForMessage(t) ==
    /\ Awaiting(t, "fetchAllCommentsForMessage")
    /\ LET m == MessageOf(tasks[t])
           docs == CommentsQuery(localDB, m, NoLimit)
           st == [state EXCEPT !.allCommentsForMessage =
                     [i \in DOMAIN @ \cup {m} |-> IF i = m THEN docs ELSE @[i]]]
       IN  Finish(t, After(WithState(st), Resumed(tasks[t])),
                  Logged(QueryEvent("fetchAllCommentsForMessage", EmptyStr, docs), 0))
    /\ UNCHANGED <<variant, localDB, remoteDB, now, revSeq, remoteWrites>>

(***************************************************************************)
(* TheWelcome: search by region, test data.                                *)
(***************************************************************************)
SearchTerms == {<<"A">>, <<"a">>, <<"A", " ">>, <<".">>, <<" ">>}

\* v-model on state.searchRegion
inputSearchRegion ==
    /\ variant = "TheWelcome"
    /\ Rendered
    /\ \E term \in SearchTerms :
          /\ state.searchRegion # term
          /\ state' = [state EXCEPT !.searchRegion = term]
    /\ log' = Logged(NoEvent, 0)
    /\ UNCHANGED <<variant, localDB, remoteDB, liveSyncs, handlersMade, now, revSeq,
                   remoteWrites, tasks>>

\* The answer to the find() of searchByRegion():
\* selector {type: 'country', region: {$regex: new RegExp(`^${searchTerm}$`, 'i')}}
RegionSearchQuery(db, searchTerm) ==
    LET Matches(d) == RegexFullMatchI(searchTerm, d.region)
    IN  Find(db, "country", Matches, ById, NoLimit, 0)

\* searchByRegion(): a blank term lists every country.
searchByRegion(t) ==
    /\ variant = "TheWelcome"
    /\ Rendered
    /\ IF Trim(state.searchRegion) = EmptyStr
       THEN Call(t, Here, [NewTask("searchByRegion", <<"fetchCountries">>)
                             EXCEPT !.q = [BlankQuery EXCEPT !.region = state.searchRegion]])
       ELSE Call(t, Here, [NewTask("searchByRegion", <<"searchByRegion:find">>)
                             EXCEPT !.q = [BlankQuery EXCEPT !.region = state.searchRegion]])
    /\ UNCHANGED <<variant, localDB, remoteDB, now, revSeq, remoteWrites>>

searchByRegionFind(t) ==
    /\ Awaiting(t, "searchByRegion:find")
    /\ LET docs == RegionSearchQuery(localDB, Trim(tasks[t].q.region))
       IN  Finish(t, After(WithState([state EXCEPT !.countries = docs]), Resumed(tasks[t])),
                  Logged(QueryEvent("searchByRegion", tasks[t].q.region, docs), 0))
    /\ UNCHANGED <<variant, localDB, remoteDB, now, revSeq, remoteWrites>>

\* The documents generateTestData() still has to put, in the order of its
\* loops: a country, then each of its messages followed by its comments.
RECURSIVE Repeat(_, _)
Repeat(s, n) == IF n = 0 THEN << >> ELSE s \o Repeat(s, n - 1)

GenPlan ==
    Repeat(<<"country">> \o Repeat(<<"message">> \o Repeat(<<"comment">>, GenComments),
                                    GenMessages),
           GenCountries)

\* The document generateTestData() builds next: tk.acc holds the country and
\* the message it wrote last.
GenDoc(tk, at, rnd, likes, age) ==
    CASE Head(tk.todo) = "country" ->
            CountryDoc(MkId("country", at, rnd), <<"a">>, <<"A">>, at)
      [] Head(tk.todo) = "message" ->
            MessageDoc(MkId("message", at, rnd), tk.acc[1]._id, <<"a">>, <<"a">>, likes,
                       at - age)
      [] OTHER ->
            CommentDoc(MkId("comment", at, rnd), tk.acc[2]._id, <<"a">>, <<"a">>, at - age)

\* generateTestData(): its button is outside the v-if of the loading message.
generateTestData(t) ==
    /\ variant = "TheWelcome"
    /\ state.mounted
    /\ IF state.dbOpen
       THEN Call(t, Here, [NewTask("generateTestData",
                                   <<"generateTestData:put">> \o FetchAllDataSteps(variant))
                             EXCEPT !.todo = GenPlan, !.acc = <<NoDoc, NoDoc>>])
       ELSE \* state.value.localDB.put(...) on a null handle: the TypeError is
            \* caught and logged by the catch of generateTestData().
            /\ FreeTask(t)
            /\ log' = Logged([NoEvent EXCEPT !.op = "generateTestData", !.kind = "null"], 0)
            /\ UNCHANGED <<state, liveSyncs, handlersMade, tasks>>
    /\ UNCHANGED <<variant, localDB, remoteDB, now, revSeq, remoteWrites>>

\* One await localDB.put(...) of the loops of generateTestData().
generateTestDataPut(t) ==
    /\ Awaiting(t, "generateTestData:put")
    /\ \E rnd \in 1..MaxRnd, likes \in 0..MaxLikes, age \in 0..now :
          LET tk == tasks[t]
              kind == Head(tk.todo)
              doc == GenDoc(tk, now, rnd, likes, age)
              tag == revSeq + 1
              db2 == DbPut(localDB, doc, tag)
              acc == CASE kind = "country" -> <<db2[doc._id], NoDoc>>
                       [] kind = "message" -> <<tk.acc[1], db2[doc._id]>>
                       [] OTHER -> tk.acc
          IN  IF RevMatches(localDB, doc)
              THEN /\ revSeq < MaxRevs
                   /\ localDB' = db2
                   /\ revSeq' = tag
                   /\ Finish(t, After(Here, [tk EXCEPT !.todo = Tail(@), !.acc = acc,
                                                       !.wrote = TRUE,
                                                       !.steps = IF Tail(tk.todo) = << >>
                                                                 THEN Tail(@) ELSE @]),
                             Logged(Event(tk.op, "create", TRUE, Stored(localDB, doc._id),
                                          db2[doc._id], NoDoc), tag))
              ELSE /\ localDB' = localDB
                   /\ revSeq' = revSeq
                   /\ Finish(t, After(Here, Caught(tk)),
                             Logged(Event(tk.op, "create", FALSE, Stored(localDB, doc._id),
                                          Stored(localDB, doc._id), NoDoc), 0))
    /\ UNCHANGED <<variant, remoteDB, now, remoteWrites>>

(***************************************************************************)
(* The remote store is shared: another client writes to it.                *)
(***************************************************************************)
RemoteWrite ==
    /\ remoteWrites < MaxRemoteWrites
    /\ revSeq < MaxRevs
    /\ \E id \in LiveIds(remoteDB) :
          remoteDB' = DbPut(remoteDB, [remoteDB[id] EXCEPT !.updatedAt = now], revSeq + 1)
    /\ revSeq' = revSeq + 1
    /\ remoteWrites' = remoteWrites + 1
    /\ log' = [Logged(NoEvent, 0) EXCEPT !.snap = [@ EXCEPT !.clean = FALSE]]
    /\ UNCHANGED <<variant, state, localDB, liveSyncs, handlersMade, now, tasks>>

(***************************************************************************)
(* part_000: messages.  getDocument(id) answers null where get() rejects,  *)
(* and its callers return on null.                                         *)
(***************************************************************************)
\* The document createMessage(countryId) of part_000 builds.
\* createMessage() of part_000 with _id: `comment_${Date.now()}`.
P0_NewMessageDoc_OtherPrefix(st, countryId, at) ==
    MessageDoc(MkId("comment", at, 0), countryId, st.newMessage.title, st.newMessage.content,
               0, at)

\* The document createMessage() of part_000 builds.
P0_NewMessageDoc(st, countryId, at) ==
    MessageDoc(MkId("message", at, 0), countryId, st.newMessage.title, st.newMessage.content,
               0, at)

P0_createMessage(t) ==
    /\ variant = "part_000"
    /\ Rendered
    /\ Filled(state.newMessage)
    /\ \E country \in Range(state.countries) :
          Call(t, Here, [NewTask("createMessage", <<"P0:createMessage:post", "P0:fetchMessages">>)
                           EXCEPT !.doc = P0_NewMessageDoc(state, country._id, now)])
    /\ UNCHANGED <<variant, localDB, remoteDB, now, revSeq, remoteWrites>>

P0_createMessagePost(t) ==
    /\ variant = "part_000"
    /\ WriteStep(t, "P0:createMessage:post", "create", FALSE, resetMessageForm, Same)

P0_startEditingMessage ==
    /\ variant = "part_000"
    /\ Rendered
    /\ \E message \in Range(state.messages) :
          /\ state.editingMessageId # message._id
          /\ state' = [state EXCEPT !.editingMessageId = message._id,
                                    !.newMessage = [title |-> message.title,
                                                    content |-> message.content]]
    /\ log' = Logged(NoEvent, 0)
    /\ UNCHANGED <<variant, localDB, remoteDB, liveSyncs, handlersMade, now, revSeq,
                   remoteWrites, tasks>>

\* {...doc, title: state.value.newMessage.title, content: state.value.newMessage.content}
P0_updateMessagePatch(st, doc) ==
    [doc EXCEPT !.title = st.newMessage.title, !.content = st.newMessage.content]

P0_updateMessage(t) ==
    /\ variant = "part_000"
    /\ Rendered
    /\ state.editingMessageId # NoId
    /\ Filled(state.newMessage)
    /\ Call(t, Here, [NewTask("updateMessage",
                              <<"P0:updateMessage:get", "P0:updateMessage:put",
                                "P0:fetchMessages">>)
                        EXCEPT !.id = state.editingMessageId])
    /\ UNCHANGED <<variant, localDB, remoteDB, now, revSeq, remoteWrites>>

P0_updateMessageGet(t) ==
    /\ variant = "part_000"
    /\ LET Patched(d) == P0_updateMessagePatch(state, d)
       IN  ReadStep(t, "P0:updateMessage:get", Patched)

P0_updateMessagePut(t) ==
    /\ variant = "part_000"
    /\ WriteStep(t, "P0:updateMessage:put", "update", FALSE, updateMessageDone, Same)

\* {...doc, likes: doc.likes + 1}
P0_likeDoc(doc) == [doc EXCEPT !.likes = doc.likes + 1]

P0_likeMessage(t) ==
    /\ variant = "part_000"
    /\ Rendered
    /\ \E message \in Range(state.messages) :
          Call(t, Here, [NewTask("likeMessage",
                                 <<"P0:likeMessage:get", "P0:likeMessage:put",
                                   "P0:fetchMessages">>)
                           EXCEPT !.id = message._id])
    /\ UNCHANGED <<variant, localDB, remoteDB, now, revSeq, remoteWrites>>

P0_likeMessageGet(t) ==
    /\ variant = "part_000"
    /\ ReadStep(t, "P0:likeMessage:get", P0_likeDoc)

P0_likeMessagePut(t) ==
    /\ variant = "part_000"
    /\ WriteStep(t, "P0:likeMessage:put", "like", FALSE, Same, Same)

\* state.value.comments.filter(c => c.messageId === id), as identifiers
AssociatedComments(st, id) ==
    LET s == st.comments
        F[i \in 0..Len(s)] ==
            IF i = 0 THEN << >>
            ELSE IF s[i].messageId = id THEN Append(F[i - 1], s[i]._id) ELSE F[i - 1]
    IN  F[Len(s)]

\* deleteMessage(id) of part_000
P0_deleteMessage(t) ==
    /\ variant = "part_000"
    /\ Rendered
    /\ \E message \in Range(state.messages) :
          Call(t, Here, [NewTask("deleteMessage",
                                 <<"P0:deleteMessage:get", "P0:deleteDocument:get",
                                   "P0:deleteDocument:remove", "P0:deleteMessage:remove",
                                   "P0:fetchMessages", "P0:fetchComments">>)
                           EXCEPT !.id = message._id])
    /\ UNCHANGED <<variant, localDB, remoteDB, now, revSeq, remoteWrites>>

\* The steps of deleteMessage() that are left once todo is what remains of
\* its loop over the associated comments.
P0_AfterLoop(todo) ==
    IF todo = << >>
    THEN <<"P0:deleteMessage:remove", "P0:fetchMessages", "P0:fetchComments">>
    ELSE <<"P0:deleteDocument:get", "P0:deleteDocument:remove", "P0:deleteMessage:remove",
           "P0:fetchMessages", "P0:fetchComments">>

P0_deleteMessageGet(t) ==
    /\ Awaiting(t, "P0:deleteMessage:get")
    /\ LET tk == tasks[t]
           r == getDocument(localDB, tk.id)
           d == r.doc
           todo == AssociatedComments(state, tk.id)
       IN  IF r.raised \/ d = NoDoc
           THEN Finish(t, After(Here, Caught(tk)),
                       Logged([Event(tk.op, "get", FALSE, NoDoc, NoDoc, NoDoc)
                                 EXCEPT !.raised = r.raised], 0))
           ELSE Finish(t, After(Here, [tk EXCEPT !.doc = d, !.todo = todo,
                                                 !.steps = P0_AfterLoop(todo)]),
                       Logged(Event(tk.op, "get", TRUE, d, d, d), 0))
    /\ UNCHANGED <<variant, localDB, remoteDB, now, revSeq, remoteWrites>>

\* deleteDocument(id): const doc = await methods.getDocument(id); if (!doc) return
P0_deleteDocumentGet(t) ==
    /\ Awaiting(t, "P0:deleteDocument:get")
    /\ LET tk == tasks[t]
           r == getDocument(localDB, Head(tk.todo))
           d == r.doc
       IN  IF r.raised
           THEN Finish(t, After(Here, [tk EXCEPT !.todo = Tail(@),
                                                 !.steps = P0_AfterLoop(Tail(tk.todo))]),
                       Logged([Event("deleteDocument", "get", FALSE, NoDoc, NoDoc, NoDoc)
                                 EXCEPT !.raised = TRUE], 0))
           ELSE IF d = NoDoc
           THEN Finish(t, After(Here, [tk EXCEPT !.todo = Tail(@),
                                                 !.steps = P0_AfterLoop(Tail(tk.todo))]),
                       Logged(Event("deleteDocument", "get", FALSE, NoDoc, NoDoc, NoDoc), 0))
           ELSE Finish(t, After(Here, Resumed([tk EXCEPT !.acc = <<d>>])),
                       Logged(Event("deleteDocument", "get", TRUE, d, d, d), 0))
    /\ UNCHANGED <<variant, localDB, remoteDB, now, revSeq, remoteWrites>>

\* deleteDocument(id): await localDB.remove(doc), a rejection caught and logged
\* by deleteDocument itself.
P0_deleteDocumentRemove(t) ==
    /\ Awaiting(t, "P0:deleteDocument:remove")
    /\ LET tk == tasks[t]
           doc == tk.acc[1]
           tag == revSeq + 1
           db2 == DbRemove(localDB, doc, tag)
           next == [tk EXCEPT !.todo = Tail(@), !.acc = << >>,
                              !.steps = P0_AfterLoop(Tail(tk.todo))]
       IN  IF RevMatches(localDB, doc)
           THEN /\ revSeq < MaxRevs
                /\ localDB' = db2
                /\ revSeq' = tag
                /\ Finish(t, After(Here, next),
                          Logged(Event("deleteDocument", "delete", TRUE, localDB[doc._id],
                                       db2[doc._id], doc), tag))
           ELSE /\ localDB' = localDB
                /\ revSeq' = revSeq
                /\ Finish(t, After(Here, next),
                          Logged(Event("deleteDocument", "delete", FALSE,
                                       Stored(localDB, doc._id), Stored(localDB, doc._id), doc),
                                 0))
    /\ UNCHANGED <<variant, remoteDB, now, remoteWrites>>

P0_deleteMessageRemove(t) ==
    /\ variant = "part_000"
    /\ WriteStep(t, "P0:deleteMessage:remove", "delete", TRUE, Same, Same)

(***************************************************************************)
(* part_000: comments, and the queries that answer their caller.           *)
(***************************************************************************)
\* v-model on state.newComment.content and .author
P0_inputComment ==
    /\ variant = "part_000"
    /\ Rendered
    /\ \E form \in CommentInputs :
          /\ state.newComment # form
          /\ state' = [state EXCEPT !.newComment = form]
    /\ log' = Logged(NoEvent, 0)
    /\ UNCHANGED <<variant, localDB, remoteDB, liveSyncs, handlersMade, now, revSeq,
                   remoteWrites, tasks>>

resetNewCommentForm(st) == [st EXCEPT !.newComment = BlankCommentForm]

\* The document createComment(messageId) of part_000 builds.
P0_NewCommentDoc(st, messageId, at) ==
    CommentDoc(MkId("comment", at, 0), messageId, st.newComment.content, st.newComment.author,
               at)

P0_createComment(t) ==
    /\ variant = "part_000"
    /\ Rendered
    /\ Filled(state.newComment)
    /\ \E message \in Range(state.messages) :
          Call(t, Here, [NewTask("createComment", <<"P0:createComment:post", "P0:fetchComments">>)
                           EXCEPT !.id = message._id,
                                  !.doc = P0_NewCommentDoc(state, message._id, now)])
    /\ UNCHANGED <<variant, localDB, remoteDB, now, revSeq, remoteWrites>>

P0_createCommentPost(t) ==
    /\ variant = "part_000"
    /\ WriteStep(t, "P0:createComment:post", "create", FALSE, resetNewCommentForm, Same)

P0_startEditingComment ==
    /\ variant = "part_000"
    /\ Rendered
    /\ \E comment \in Range(state.comments) :
          /\ state.editingCommentId # comment._id
          /\ state' = [state EXCEPT !.editingCommentId = comment._id,
                                    !.newComment = [content |-> comment.content,
                                                    author |-> comment.author]]
    /\ log' = Logged(NoEvent, 0)
    /\ UNCHANGED <<variant, localDB, remoteDB, liveSyncs, handlersMade, now, revSeq,
                   remoteWrites, tasks>>

\* {...doc, content: state.value.newComment.content, author: state.value.newComment.author}
P0_updateCommentPatch(st, doc) ==
    [doc EXCEPT !.content = st.newComment.content, !.author = st.newComment.author]

P0_updateComment(t) ==
    /\ variant = "part_000"
    /\ Rendered
    /\ state.editingCommentId # NoId
    /\ Filled(state.newComment)
    /\ Call(t, Here, [NewTask("updateComment",
                              <<"P0:updateComment:get", "P0:updateComment:put",
                                "P0:fetchComments">>)
                        EXCEPT !.id = state.editingCommentId])
    /\ UNCHANGED <<variant, localDB, remoteDB, now, revSeq, remoteWrites>>

P0_updateCommentGet(t) ==
    /\ variant = "part_000"
    /\ LET Patched(d) == P0_updateCommentPatch(state, d)
       IN  ReadStep(t, "P0:updateComment:get", Patched)

P0_updateCommentDone(st) == [resetNewCommentForm(st) EXCEPT !.editingCommentId = NoId]

P0_updateCommentPut(t) ==
    /\ variant = "part_000"
    /\ WriteStep(t, "P0:updateComment:put", "update", FALSE, P0_updateCommentDone, Same)

\* deleteComment(id) of part_000
P0_deleteComment(t) ==
    /\ variant = "part_000"
    /\ Rendered
    /\ \E comment \in Range(state.comments) :
          Call(t, Here, [NewTask("deleteComment",
                                 <<"P0:deleteComment:get", "P0:deleteComment:remove",
                                   "P0:fetchComments">>)
                           EXCEPT !.id = comment._id])
    /\ UNCHANGED <<variant, localDB, remoteDB, now, revSeq, remoteWrites>>

P0_deleteCommentGet(t) ==
    /\ variant = "part_000"
    /\ ReadStep(t, "P0:deleteComment:get", Same)

P0_deleteCommentRemove(t) ==
    /\ variant = "part_000"
    /\ WriteStep(t, "P0:deleteComment:remove", "delete", TRUE, Same, Same)

\* The answer to the find() of getTopLikedMessages():
\* selector {type: 'message'}, sort [{likes: 'desc'}], limit: 10
P0_TopLikedQuery(db) == Find(db, "message", IsAny, ByLikesDesc, TopLimit, 0)

\* getTopLikedMessages(), which the computed topLikedMessages calls
getTopLikedMessages(t) ==
    /\ variant = "part_000"
    /\ state.dbOpen
    /\ Call(t, Here, NewTask("getTopLikedMessages", <<"getTopLikedMessages:find">>))
    /\ UNCHANGED <<variant, localDB, remoteDB, now, revSeq, remoteWrites>>

getTopLikedMessagesFind(t) ==
    /\ Awaiting(t, "getTopLikedMessages:find")
    /\ Finish(t, After(Here, Resumed(tasks[t])),
              Logged(QueryEvent("getTopLikedMessages", EmptyStr, P0_TopLikedQuery(localDB)), 0))
    /\ UNCHANGED <<variant, localDB, remoteDB, now, revSeq, remoteWrites>>

\* The answer to the find() of getCountriesByRegion(region):
\* selector {type: 'country', region: region}, sort [{name: 'asc'}]
P0_RegionQuery(db, region) ==
    LET Matches(d) == d.region = region
    IN  Find(db, "country", Matches, ByNameAsc, NoLimit, 0)

\* getCountriesByRegion(region): [] at once for an empty region
getCountriesByRegion(t) ==
    /\ variant = "part_000"
    /\ state.dbOpen
    /\ \E region \in SearchTerms \cup {EmptyStr} :
          IF region = EmptyStr
          THEN /\ FreeTask(t)
               /\ Finish(t, After(Here, NewTask("getCountriesByRegion", << >>)),
                         Logged(QueryEvent("getCountriesByRegion", region, << >>), 0))
          ELSE Call(t, Here, [NewTask("getCountriesByRegion", <<"getCountriesByRegion:find">>)
                                EXCEPT !.q = [BlankQuery EXCEPT !.region = region]])
    /\ UNCHANGED <<variant, localDB, remoteDB, now, revSeq, remoteWrites>>

getCountriesByRegionFind(t) ==
    /\ Awaiting(t, "getCountriesByRegion:find")
    /\ Finish(t, After(Here, Resumed(tasks[t])),
              Logged(QueryEvent("getCountriesByRegion", tasks[t].q.region,
                                P0_RegionQuery(localDB, tasks[t].q.region)), 0))
    /\ UNCHANGED <<variant, localDB, remoteDB, now, revSeq, remoteWrites>>

\* v-model on state.searchTerm of part_000
P0_inputSearchTerm ==
    /\ variant = "part_000"
    /\ Rendered
    /\ \E term \in MessageTerms :
          /\ term # state.searchTerm
          /\ state' = [state EXCEPT !.searchTerm = term]
    /\ log' = Logged(NoEvent, 0)
    /\ UNCHANGED <<variant, localDB, remoteDB, liveSyncs, handlersMade, now, revSeq,
                   remoteWrites, tasks>>

\* The answer to the find() of searchMessages(): selector {type: 'message',
\* $or: [{title: {$regex}}, {content: {$regex}}]}, sort [{createdAt: 'desc'}]
P0_SearchQuery(db, term) ==
    LET Matches(d) == RegexSearchI(term, d.title) \/ RegexSearchI(term, d.content)
    IN  Find(db, "message", Matches, ByCreatedDesc, NoLimit, 0)

\* The answer to the find() of sortMessages(): selector {type: 'message'},
\* sort [{likes: 'desc'}] or [{createdAt: 'desc'}]
P0_SortQuery(db, sortBy) ==
    IF sortBy = "likes"
    THEN Find(db, "message", IsAny, ByLikesDesc, NoLimit, 0)
    ELSE Find(db, "message", IsAny, ByCreatedDesc, NoLimit, 0)

\* searchMessages(), which returns at once on an empty term
P0_searchMessages(t) ==
    /\ variant = "part_000"
    /\ Rendered
    /\ state.searchTerm # EmptyStr
    /\ Call(t, Here, [NewTask("searchMessages", <<"P0:searchMessages">>)
                        EXCEPT !.q = [BlankQuery EXCEPT !.term = state.searchTerm]])
    /\ UNCHANGED <<variant, localDB, remoteDB, now, revSeq, remoteWrites>>

\* v-model on state.sortBy and @change="methods.sortMessages"
P0_sortMessages(t) ==
    /\ variant = "part_000"
    /\ Rendered
    /\ \E sortBy \in {"date", "likes"} :
          /\ sortBy # state.sortBy
          /\ Call(t, WithState([state EXCEPT !.sortBy = sortBy]),
                  [NewTask("sortMessages", <<"P0:sortMessages">>)
                     EXCEPT !.q = [BlankQuery EXCEPT !.sortBy = sortBy]])
    /\ UNCHANGED <<variant, localDB, remoteDB, now, revSeq, remoteWrites>>

\* The answer to the request of a searchMessages() or a sortMessages().
P0_MessagesQuery(db, tk) ==
    IF tk.op = "searchMessages" THEN P0_SearchQuery(db, tk.q.term)
    ELSE P0_SortQuery(db, tk.q.sortBy)

\* searchMessages() and sortMessages(), after their find()
P0_messagesFind(t) ==
    /\ Awaiting(t, "P0:searchMessages") \/ Awaiting(t, "P0:sortMessages")
    /\ LET docs == P0_MessagesQuery(localDB, tasks[t])
       IN  Finish(t, After(WithState([state EXCEPT !.messages = docs]), Resumed(tasks[t])),
                  Logged(QueryEvent(tasks[t].op, tasks[t].q.term, docs), 0))
    /\ UNCHANGED <<variant, localDB, remoteDB, now, revSeq, remoteWrites>>

(***************************************************************************)
(* Initial states: the component as constructed, over stores that hold     *)
(* what earlier sessions left in them.                                     *)
(***************************************************************************)
SeedCountryId == MkId("country", 0, 0)

SeedMessageId(n) == MkId("message", 0, n)

SeedCommentId(n) == MkId("comment", 0, n)

AsStored(doc) == [doc EXCEPT !._rev = <<0>>]

SeedCountry(region) == AsStored(CountryDoc(SeedCountryId, <<"a">>, region, 0))

SeedMessage(n, likes) ==
    AsStored(MessageDoc(SeedMessageId(n), SeedCountryId, <<"a">>, <<"a">>, likes, 0))

SeedComment(n) == AsStored(CommentDoc(SeedCommentId(n), SeedMessageId(1), <<"a">>, <<"a">>, 0))

StoreOf(docs) == [i \in {d._id : d \in docs} |-> CHOOSE d \in docs : d._id = i]

\* A country, a message of it with some likes, and comments on the message.
SeedStore(likes, comments) ==
    StoreOf({SeedCountry(<<"A">>), SeedMessage(1, likes)}
            \cup {SeedComment(n) : n \in 1..comments})

InitWith(locals, remotes) ==
    /\ variant \in {"TheWelcome", "part_000"}
    /\ state = InitialState(variant)
    /\ localDB \in locals
    /\ remoteDB \in remotes
    /\ liveSyncs = {}
    /\ handlersMade = 0
    /\ now = 1
    /\ revSeq = 0
    /\ remoteWrites = 0
    /\ tasks = [t \in TaskIds |-> Idle]
    /\ log = [InitialLog EXCEPT !.origin = localDB]

SeedStores == {SeedStore(l, 1) : l \in 0..MaxLikes}

Init == InitWith(SeedStores, SeedStores) /\ remoteDB = localDB

\* The start of the component and the fetches its methods end with.
Boot(t) ==
    \/ onMounted(t)
    \/ createIndexes(t)
    \/ replicateFromRemote(t)
    \/ fetchCountries(t)
    \/ fetchTopLikedMessages(t)
    \/ P0_fetch(t)

\* A country is selected and its messages and their comments are listed.
Browse(t) ==
    \/ selectCountry(t)
    \/ fetchMessages(t)
    \/ fetchComments(t)

(***************************************************************************)
(* Replication and the online switch: the start of the component, the      *)
(* switch, the live streams, and one method of each revision that writes   *)
(* to the local store.                                                     *)
(***************************************************************************)
ExtraCountry == AsStored(CountryDoc(MkId("country", 0, 1), <<"A">>, <<"a">>, 0))

SyncLocal == {StoreOf({SeedCountry(<<"A">>), SeedMessage(1, 0)})}

\* The remote store holds what the local one holds, or one document more.
SyncRemote ==
    {StoreOf({SeedCountry(<<"A">>), SeedMessage(1, 0)}),
     StoreOf({SeedCountry(<<"A">>), SeedMessage(1, 0), ExtraCountry})}

InitSync == InitWith(SyncLocal, SyncRemote)

NextSync ==
    \/ \E t \in TaskIds :
          \/ Boot(t)
          \/ Replicate(t)
          \/ deleteCountry(t) \/ deleteCountryGet(t) \/ deleteCountryRemove(t)
          \/ P0_likeMessage(t) \/ P0_likeMessageGet(t) \/ P0_likeMessagePut(t)
    \/ toggleOnlineOffline

SpecSync == InitSync /\ [][NextSync]_vars

\* C1: while isOnline is false, no revision that a method wrote to the local
\* store since isOnline became false is part of a document of the remote
\* store.
C1_OfflineWritesStayLocal ==
    ~state.isOnline =>
        \A i \in DOMAIN remoteDB : Range(remoteDB[i]._rev) \cap log.offlineTags = {}

\* C9: when toggleOnlineOffline sets isOnline back to true and nothing was
\* written since it set isOnline to false, both stores hold the documents and
\* revisions they held when isOnline became false.
C9_ToggleRoundTrip ==
    (/\ log.last.op = "toggleOnlineOffline"
     /\ log.last.kind = "online"
     /\ log.snap.taken
     /\ log.snap.clean)
    => (localDB = log.snap.local /\ remoteDB = log.snap.remote)

(***************************************************************************)
(* Likes.                                                                  *)
(***************************************************************************)
NextLikes ==
    \E t \in TaskIds :
        \/ Boot(t)
        \/ selectCountry(t) \/ fetchMessages(t)
        \/ toggleLike(t) \/ toggleLikeGet(t) \/ toggleLikePut(t)
        \/ P0_likeMessage(t) \/ P0_likeMessageGet(t) \/ P0_likeMessagePut(t)

SpecLikes == Init /\ [][NextLikes]_vars

\* C3: a like that was written leaves the stored likes of the message one
\* above what they were, or (toggleLike only) one below, or at 0 where they
\* were 0; and no stored message has likes below 0.
C3_LikesByOne ==
    /\ \A i \in DOMAIN localDB : localDB[i].likes >= 0
    /\ (log.last.kind = "like" /\ log.last.ok) =>
          LET was == log.last.before.likes
              is == log.last.after.likes
          IN  /\ localDB[log.last.after._id] = log.last.after
              /\ log.last.before.type = "message"
              /\ log.last.op = "likeMessage" => is = was + 1
              /\ log.last.op = "toggleLike" =>
                    \/ is = was + 1
                    \/ was > 0 /\ is = was - 1
                    \/ was = 0 /\ is = 0

\* The unlike branch of toggleLike was written for a message with 0 likes.
C3_Witness ==
    /\ log.last.kind = "like"
    /\ log.last.ok
    /\ log.last.op = "toggleLike"
    /\ log.last.before.likes = 0
    /\ log.last.after.likes = 0

\* The likes a message had before any like of this session.
BaseLikes(id) == IF id \in DOMAIN log.origin THEN log.origin[id].likes ELSE 0

\* The message was written twice since it was first stored, both times by
\* toggleLike, no two calls of toggleLike overlapped, and none is in flight.
ToggledTwice(id) ==
    /\ variant = "TheWelcome"
    /\ id \in LiveIds(localDB)
    /\ localDB[id].type = "message"
    /\ Len(localDB[id]._rev) = 3
    /\ {localDB[id]._rev[2], localDB[id]._rev[3]} \subseteq log.likeTags
    /\ "toggleLike" \notin log.overlapped
    /\ \A t \in TaskIds : tasks[t].op # "toggleLike"

\* C8: after two calls of toggleLike in sequence on a message, with no other
\* writer, the message has the likes it had before and is not in
\* userLikedMessages.
C8_TwiceIsIdentity ==
    \A id \in DOMAIN localDB :
        ToggledTwice(id) =>
            /\ localDB[id].likes = BaseLikes(id)
            /\ id \notin state.userLikedMessages

C8_Witness == \E id \in DOMAIN localDB : ToggledTwice(id)

(***************************************************************************)
(* Deletes: the delete methods of both revisions over a store that holds   *)
(* a country, two messages of it and a comment on the first.               *)
(***************************************************************************)
DeleteSeed ==
    StoreOf({SeedCountry(<<"A">>), SeedMessage(1, 0), SeedMessage(2, 0), SeedComment(1)})

InitDelete == InitWith({DeleteSeed}, {DeleteSeed})

NextDelete ==
    \E t \in TaskIds :
        \/ Boot(t)
        \/ Browse(t)
        \/ deleteCountry(t) \/ deleteCountryGet(t) \/ deleteCountryRemove(t)
        \/ deleteMessage(t) \/ deleteMessageGet(t) \/ deleteMessageRemove(t)
        \/ deleteMessageFind(t) \/ deleteMessageRemoveComment(t)
        \/ deleteComment(t) \/ deleteCommentGet(t) \/ deleteCommentRemove(t)
        \/ P0_deleteMessage(t) \/ P0_deleteMessageGet(t) \/ P0_deleteDocumentGet(t)
        \/ P0_deleteDocumentRemove(t) \/ P0_deleteMessageRemove(t)
        \/ P0_deleteComment(t) \/ P0_deleteCommentGet(t) \/ P0_deleteCommentRemove(t)

SpecDelete == InitDelete /\ [][NextDelete]_vars

\* deleteMessage() of both revisions next to createComment() of part_000.
NextCascade ==
    \E t \in TaskIds :
        \/ Boot(t)
        \/ Browse(t)
        \/ deleteMessage(t) \/ deleteMessageGet(t) \/ deleteMessageRemove(t)
        \/ deleteMessageFind(t) \/ deleteMessageRemoveComment(t)
        \/ P0_inputComment \/ P0_createComment(t) \/ P0_createCommentPost(t)
        \/ P0_deleteMessage(t) \/ P0_deleteMessageGet(t) \/ P0_deleteDocumentGet(t)
        \/ P0_deleteDocumentRemove(t) \/ P0_deleteMessageRemove(t)

SpecCascade == InitDelete /\ [][NextCascade]_vars

\* C2: when deleteMessage(id) has returned after removing the message, the
\* local store holds no live comment whose messageId is id.
C2_CascadeLeavesNoComment ==
    (log.ended.op = "deleteMessage" /\ log.ended.wrote) =>
        \A i \in LiveIds(localDB) :
            ~(localDB[i].type = "comment" /\ localDB[i].messageId = log.ended.id)

UpdateSeed == SeedStore(0, 1)

InitUpdate == InitWith({UpdateSeed}, {UpdateSeed})

NoneEdited ==
    /\ \A t \in TaskIds : tasks[t].op = "idle"
    /\ state.editingCountryId = NoId
    /\ state.editingMessageId = NoId
    /\ state.editingCommentId = NoId

NextUpdate ==
    \/ \E t \in TaskIds :
          \/ Boot(t)
          \/ Browse(t)
          \/ updateCountry(t) \/ updateCountryGet(t) \/ updateCountryPut(t)
          \/ updateMessage(t) \/ updateMessageGet(t) \/ updateMessagePut(t)
          \/ (state.expandedMessageId = NoId /\ toggleCommentsVisibility(t))
          \/ fetchAllCommentsForMessage(t)
          \/ updateComment(t) \/ updateCommentGet(t) \/ updateCommentPut(t)
          \/ P0_updateMessage(t) \/ P0_updateMessageGet(t) \/ P0_updateMessagePut(t)
          \/ P0_updateComment(t) \/ P0_updateCommentGet(t) \/ P0_updateCommentPut(t)
    \/ NoneEdited /\ startEditingCountry
    \/ NoneEdited /\ startEditingMessage
    \/ NoneEdited /\ startEditingComment
    \/ NoneEdited /\ P0_startEditingMessage
    \/ NoneEdited /\ P0_startEditingComment
    \/ state.editingCountryId # NoId /\ inputCountry /\ state'.newCountry.region = <<"a">>
    \/ state.editingMessageId # NoId /\ inputMessage /\ state'.newMessage.title = <<"A">>
    \/ inputEditComment /\ state'.editingCommentData.content = <<" ", "A">>
    \/ state.editingCommentId # NoId /\ P0_inputComment
                                     /\ state'.newComment.content = <<" ", "A">>

SpecUpdate == InitUpdate /\ [][NextUpdate]_vars

\* The document an update leaves for the document it read, given the
\* form values it applied: updateComment() of TheWelcome stores them trimmed.
Updated(op, was, form, is) ==
    LET kept == [was EXCEPT !._rev = is._rev, !.updatedAt = is.updatedAt]
    IN  CASE op = "updateCountry" ->
                [kept EXCEPT !.name = form.name, !.region = form.region]
          [] op = "updateMessage" ->
                [kept EXCEPT !.title = form.title, !.content = form.content]
          [] op = "updateComment" /\ variant = "TheWelcome" ->
                [kept EXCEPT !.content = Trim(form.content), !.author = Trim(form.author)]
          [] op = "updateComment" ->
                [kept EXCEPT !.content = form.content, !.author = form.author]
          [] OTHER -> NoDoc

Quiet ==
    /\ \A t \in TaskIds : tasks[t].op = "idle"
    /\ state.newCountry = BlankCountryForm
    /\ state.newMessage = BlankForm
    /\ state.newComment = BlankCommentForm
    /\ \A i \in DOMAIN state.commentForms : state.commentForms[i] = BlankCommentForm

NextCreate ==
    \/ \E t \in TaskIds :
          \/ Boot(t)
          \/ Browse(t)
          \/ createCountry(t) \/ createCountryPut(t)
          \/ createMessage(t) \/ createMessagePut(t)
          \/ createComment(t) \/ createCommentPut(t)
          \/ (Quiet /\ generateTestData(t))
          \/ generateTestDataPut(t)
          \/ updateCountry(t) \/ updateCountryGet(t) \/ updateCountryPut(t)
          \/ P0_createMessage(t) \/ P0_createMessagePost(t)
          \/ P0_createComment(t) \/ P0_createCommentPost(t)
          \/ P0_updateMessage(t) \/ P0_updateMessageGet(t) \/ P0_updateMessagePut(t)
    \/ NoneEdited /\ Quiet /\ startEditingCountry
    \/ NoneEdited /\ Quiet /\ P0_startEditingMessage
    \/ Quiet /\ inputCountry /\ state'.newCountry.region = <<"a">>
    \/ Quiet /\ inputMessage /\ state'.newMessage.title = <<"A">>
    \/ Quiet /\ inputComment /\ \E i \in DOMAIN state'.commentForms :
                                    state'.commentForms[i].content = <<" ", "A">>
    \/ Quiet /\ P0_inputComment /\ state'.newComment.content = <<" ", "A">>

SpecCreate == InitUpdate /\ [][NextCreate]_vars

\* The type of the documents a create method writes.
CreatedType(op) ==
    CASE op = "createCountry" -> {"country"}
      [] op = "createMessage" -> {"message"}
      [] op = "createComment" -> {"comment"}
      [] OTHER -> DocTypes

\* C6: every document of the local store has an identifier whose prefix is
\* its type; a create method writes a document of its own type under an
\* identifier with that prefix; an update leaves _id and type as it read them.
C6_IdPrefixIsType ==
    /\ \A i \in LiveIds(localDB) :
          /\ localDB[i]._id = i
          /\ localDB[i].type \in DocTypes
          /\ i.prefix = localDB[i].type
    /\ (log.last.kind = "create" /\ log.last.ok) =>
          /\ log.last.after.type \in CreatedType(log.last.op)
          /\ log.last.after._id.prefix = log.last.after.type
          /\ DbGet(localDB, log.last.after._id) = log.last.after
    /\ (log.last.kind = "update" /\ log.last.ok) =>
          /\ log.last.after._id = log.last.read._id
          /\ log.last.after.type = log.last.read.type

\* generateTestData() has written the comment of its message.
C6_Witness ==
    /\ log.last.op = "generateTestData"
    /\ log.last.kind = "create"
    /\ log.last.ok
    /\ log.last.after.type = "comment"

(***************************************************************************)
(* The top-liked requests of both revisions, over stores that hold about   *)
(* as many messages as the requests return at most.                        *)
(***************************************************************************)
\* The likes of message i of n: all distinct and growing with the number,
\* all distinct and falling, or with ties.
SeedLikes(pattern, i, n) ==
    CASE pattern = "up" -> i
      [] pattern = "down" -> n - i
      [] OTHER -> i % 3

TopStore(n, pattern) ==
    StoreOf({SeedCountry(<<"A">>)} \cup {SeedMessage(i, SeedLikes(pattern, i, n)) : i \in 1..n})

TopStores ==
    {TopStore(n, pattern) : n \in (MaxStored - 2)..MaxStored, pattern \in {"up", "down", "ties"}}

InitTop == InitWith(TopStores, TopStores) /\ remoteDB = localDB

NextTop ==
    \E t \in TaskIds :
        \/ Boot(t)
        \/ selectCountry(t) \/ fetchMessages(t)
        \/ getTopLikedMessages(t) \/ getTopLikedMessagesFind(t)

SpecTop == InitTop /\ [][NextTop]_vars

Messages(db) == {d \in LiveDocs(db) : d.type = "message"}

Min(a, b) == IF a <= b THEN a ELSE b

\* C7: the answer to a top-liked request holds 10 messages of the store, or
\* all of them where the store holds 10 or fewer, in an order in which likes
\* never grow, and no message left out has more likes than one returned.
C7_TopLiked ==
    (/\ log.last.kind = "query"
     /\ log.last.op \in {"fetchTopLikedMessages", "getTopLikedMessages"}) =>
        LET r == log.last.result
            all == Messages(localDB)
        IN  /\ Len(r) = Min(Cardinality(all), 10)
            /\ Range(r) \subseteq all
            /\ Cardinality(Range(r)) = Len(r)
            /\ \A i \in 1..(Len(r) - 1) : r[i].likes >= r[i + 1].likes
            /\ \A d \in all \ Range(r) : \A i \in 1..Len(r) : d.likes <= r[i].likes

\* A top-liked request was answered from a store of more than 10 messages.
C7_Witness ==
    /\ log.last.kind = "query"
    /\ log.last.op = "fetchTopLikedMessages"
    /\ Cardinality(Messages(localDB)) > 10
    /\ \E d \in Messages(localDB) : d \notin Range(log.last.result)

(***************************************************************************)
(* The region queries of both revisions, over a store that holds a country *)
(* of some region; TheWelcome creates countries too.                       *)
(***************************************************************************)
RegionStores == {StoreOf({SeedCountry(region), SeedMessage(1, 0)}) : region \in Regions}

InitRegion == InitWith(RegionStores, RegionStores) /\ remoteDB = localDB

NextRegion ==
    \/ \E t \in TaskIds :
          \/ Boot(t)
          \/ createCountry(t) \/ createCountryPut(t)
          \/ searchByRegion(t) \/ searchByRegionFind(t)
          \/ getCountriesByRegion(t) \/ getCountriesByRegionFind(t)
    \/ NoneEdited /\ inputCountry
    \/ NoneEdited /\ inputSearchRegion

SpecRegion == InitRegion /\ [][NextRegion]_vars

\* Whether a region matches the region r asked for: the same text in
\* part_000, the same text but for case in TheWelcome.
RegionMatches(region, r) ==
    IF variant = "part_000" THEN region = r ELSE LowerStr(region) = LowerStr(r)

\* C10: where the store holds a country of region r, the answer to a region
\* query for r holds every country of region r and only countries whose
\* region matches r.
C10_RegionQuery ==
    (/\ log.last.kind = "query"
     /\ log.last.op \in {"searchByRegion", "getCountriesByRegion"}
     /\ \E d \in LiveDocs(localDB) : d.type = "country" /\ d.region = log.last.arg) =>
        LET r == log.last.arg
            found == Range(log.last.result)
        IN  /\ \A d \in found : d.type = "country" /\ RegionMatches(d.region, r)
            /\ \A d \in LiveDocs(localDB) : (d.type = "country" /\ d.region = r) => d \in found

(***************************************************************************)
(* Point lookups of part_000 and the methods that start with one, over a   *)
(* store that holds a country, a message and a comment: a document is      *)
(* removed by one call while another call that names it is in flight or    *)
(* while the lists still show it.  The user likes a message or deletes a   *)
(* comment while no document is being edited, and looks a document up      *)
(* when a method has just returned.                                        *)
(***************************************************************************)
AbsentId == MkId("message", 9, 9)

LookupIds == DOMAIN localDB \cup {NoId, AbsentId}

LookupSteps == <<"P0:getById:get">>

\* A call of getDocument(id), getCountryById(id) or getMessageById(id):
\* if (!state.value.localDB || !id) return null
P0_getById(t, op) ==
    /\ variant = "part_000"
    /\ state.dbOpen
    /\ \E id \in LookupIds :
          IF id = NoId
          THEN /\ FreeTask(t)
               /\ Finish(t, After(Here, [NewTask(op, << >>) EXCEPT !.id = id]),
                         Logged([NoEvent EXCEPT !.op = op, !.kind = "lookup"], 0))
          ELSE Call(t, Here, [NewTask(op, LookupSteps) EXCEPT !.id = id])
    /\ UNCHANGED <<variant, localDB, remoteDB, now, revSeq, remoteWrites>>

P0_getDocument(t) == P0_getById(t, "getDocument")

P0_getCountryById(t) == P0_getById(t, "getCountryById")

P0_getMessageById(t) == P0_getById(t, "getMessageById")

\* The answer of the get() of a point lookup reaches its caller.
P0_getByIdGet(t) ==
    /\ Awaiting(t, "P0:getById:get")
    /\ LET tk == tasks[t]
           r == CASE tk.op = "getCountryById" -> getCountryById(localDB, tk.id)
                  [] tk.op = "getMessageById" -> getMessageById(localDB, tk.id)
                  [] OTHER -> getDocument(localDB, tk.id)
       IN  Finish(t, After(Here, Resumed(tk)),
                  Logged([NoEvent EXCEPT !.op = tk.op, !.kind = "lookup",
                                         !.ok = (r.doc # NoDoc), !.raised = r.raised,
                                         !.after = r.doc], 0))
    /\ UNCHANGED <<variant, localDB, remoteDB, now, revSeq, remoteWrites>>

AllIdle == \A t \in TaskIds : tasks[t].op = "idle"

\* No document is being edited.
NoEdit == state.editingMessageId = NoId /\ state.editingCommentId = NoId

\* A method that starts with a lookup has just returned and none is in flight.
Returned ==
    /\ AllIdle
    /\ log.ended.op \in {"updateMessage", "deleteMessage", "updateComment", "deleteComment",
                          "likeMessage"}

InitLookup == InitUpdate /\ variant = "part_000"

NextLookup ==
    \/ \E t \in TaskIds :
          \/ onMounted(t) \/ createIndexes(t) \/ P0_fetch(t)
          \/ (Returned /\ P0_getDocument(t))
          \/ (Returned /\ P0_getCountryById(t))
          \/ (Returned /\ P0_getMessageById(t))
          \/ P0_getByIdGet(t)
          \/ P0_updateMessage(t) \/ P0_updateMessageGet(t) \/ P0_updateMessagePut(t)
          \/ P0_deleteMessage(t) \/ P0_deleteMessageGet(t) \/ P0_deleteDocumentGet(t)
          \/ P0_deleteDocumentRemove(t) \/ P0_deleteMessageRemove(t)
          \/ P0_updateComment(t) \/ P0_updateCommentGet(t) \/ P0_updateCommentPut(t)
          \/ (NoEdit /\ P0_deleteComment(t))
          \/ P0_deleteCommentGet(t) \/ P0_deleteCommentRemove(t)
          \/ (NoEdit /\ P0_likeMessage(t))
          \/ P0_likeMessageGet(t) \/ P0_likeMessagePut(t)
    \/ NoneEdited /\ P0_startEditingMessage
    \/ NoneEdited /\ P0_startEditingComment

SpecLookup == InitLookup /\ [][NextLookup]_vars

\* A step of part_000 in which a point lookup, alone or at the start of a
\* method, gave no document.
NullLookup == variant = "part_000" /\ log'.last.kind \in {"get", "lookup"} /\ ~log'.last.ok

\* C11: a point lookup of part_000 for an identifier the local store holds no
\* live document under answers null and raises nothing, and the step in which
\* a lookup gave null leaves both stores and the reactive state as they were,
\* the calling method having returned (deleteDocument, called in the loop of
\* deleteMessage, returns to the loop).
C11_NullLookupSkips ==
    [][/\ (/\ variant = "part_000"
           /\ log'.last.kind = "lookup"
           /\ log'.ended.id \notin LiveIds(localDB)) => ~log'.last.ok
       /\ NullLookup =>
             /\ ~log'.last.raised
             /\ localDB' = localDB
             /\ remoteDB' = remoteDB
             /\ revSeq' = revSeq
             /\ state' = state
             /\ log'.last.op # "deleteDocument" => log'.ended.op = log'.last.op]_vars

\* updateMessage() of part_000 found the message it edits gone.
C11_Witness ==
    /\ variant = "part_000"
    /\ log.last.op = "updateMessage"
    /\ log.last.kind = "get"
    /\ ~log.last.ok
    /\ state.editingMessageId # NoId
    /\ DbGet(localDB, state.editingMessageId) = NoDoc

(***************************************************************************)
(* The replication controller.                                             *)
(***************************************************************************)
\* initDatabases() has returned: the stores are open and no task runs it.
StartupDone == state.dbOpen /\ \A t \in TaskIds : tasks[t].op # "initDatabases"

\* The controller is running while a live replication exists.
Running == liveSyncs # {}

\* C12: once the start of the component has finished, a live replication
\* exists exactly when isOnline is true.
C12_RunningIffOnline == StartupDone => (Running <=> state.isOnline)

(***************************************************************************)
(* Convergence of the two stores.  Every request a method awaits is        *)
(* answered, and a live replication goes on copying what the other side    *)
(* has not got.                                                            *)
(***************************************************************************)
Writers == {"deleteCountry", "likeMessage"}

\* A method that writes is called, or another client writes, while a
\* revision tag is left for every write in flight.
TagsLeft == revSeq + Cardinality({t \in TaskIds : tasks[t].op \in Writers}) < MaxRevs

\* The switch goes online while a stream is left for it and for the one
\* initDatabases() starts at its end.
StreamsLeft ==
    state.isOnline \/
    handlersMade + 1 + (IF StartupDone THEN 0 ELSE 1) <= MaxHandlers

\* The continuation of task t after an answered request.
Continue(t) ==
    \/ Boot(t)
    \/ deleteCountryGet(t) \/ deleteCountryRemove(t)
    \/ P0_likeMessageGet(t) \/ P0_likeMessagePut(t)

NextConverge ==
    \/ \E t \in TaskIds :
          \/ Continue(t)
          \/ Replicate(t)
          \/ (TagsLeft /\ AllIdle /\ deleteCountry(t))
          \/ (TagsLeft /\ AllIdle /\ P0_likeMessage(t))
    \/ (StreamsLeft /\ AllIdle /\ toggleOnlineOffline)

Fairness ==
    /\ \A t \in TaskIds : WF_vars(Continue(t))
    /\ WF_vars(\E t \in TaskIds : Replicate(t))

SpecConverge == InitSync /\ [][NextConverge]_vars /\ Fairness

Converged == LiveDocs(localDB) = LiveDocs(remoteDB)

\* C13: where the component stays online from some point on (the writes stop:
\* the tags run out), the local and the remote store hold the same documents
\* from some point on, the revisions written while offline among them.
C13_EventuallyConverged == <>[](state.isOnline) => <>[]Converged

C13_Witness ==
    /\ state.isOnline
    /\ Converged
    /\ \E i \in DOMAIN remoteDB : Range(remoteDB[i]._rev) \cap log.carried # {}

(***************************************************************************)
(* Stale revision tokens: a method's get() and its put() or remove() are   *)
(* two requests, and another method or a replication may write between     *)
(* them.                                                                   *)
(***************************************************************************)
PutLabels ==
    {"updateMessage:put", "toggleLike:put", "deleteMessage:remove", "P0:updateMessage:put",
     "P0:likeMessage:put", "P0:deleteMessage:remove", "P0:deleteDocument:remove"}

\* A method has read its document and its write is still to come.
Between == \E t \in TaskIds : tasks[t].steps # << >> /\ Head(tasks[t].steps) \in PutLabels

\* Another client writes while a method is between its read and its write,
\* and the local store has nothing the remote one lacks.
Pulling == Between /\ Unreplicated(localDB, remoteDB) = {}

\* The methods are called one after the other, or a second one while the
\* first is between its read and its write.
Overlap == AllIdle \/ Between

NextStale ==
    \/ \E t \in TaskIds :
          \/ Boot(t)
          \/ (AllIdle /\ selectCountry(t)) \/ fetchMessages(t) \/ fetchComments(t)
          \/ (Pulling /\ Replicate(t))
          \/ (AllIdle /\ updateMessage(t)) \/ updateMessageGet(t) \/ updateMessagePut(t)
          \/ (Overlap /\ toggleLike(t)) \/ toggleLikeGet(t) \/ toggleLikePut(t)
          \/ (Overlap /\ deleteMessage(t)) \/ deleteMessageGet(t) \/ deleteMessageRemove(t)
          \/ deleteMessageFind(t) \/ deleteMessageRemoveComment(t)
          \/ (AllIdle /\ P0_updateMessage(t)) \/ P0_updateMessageGet(t)
          \/ P0_updateMessagePut(t)
          \/ (Overlap /\ P0_likeMessage(t)) \/ P0_likeMessageGet(t) \/ P0_likeMessagePut(t)
          \/ (Overlap /\ P0_deleteMessage(t)) \/ P0_deleteMessageGet(t)
          \/ P0_deleteMessageRemove(t)
          \/ P0_deleteDocumentGet(t) \/ P0_deleteDocumentRemove(t)
    \/ NoneEdited /\ startEditingMessage
    \/ NoneEdited /\ P0_startEditingMessage
    \/ state.editingMessageId # NoId /\ AllIdle /\ inputMessage
                                     /\ state'.newMessage.title = <<"A">>
    \/ (Pulling /\ RemoteWrite)

SpecStale == InitUpdate /\ [][NextStale]_vars

\* The edit state: the identifiers under edit and the contents of the forms.
EditState(st) ==
    <<st.editingCountryId, st.editingMessageId, st.editingCommentId,
      st.newCountry, st.newMessage, st.newComment, st.editingCommentData, st.commentForms>>

\* The step just taken was the put() or remove() of an update, a like or a
\* delete.
Wrote == log'.last.kind \in {"update", "like", "delete"}

\* C14: a put() or remove() whose document was read before the stored
\* document changed is rejected, and a rejected one leaves the local store
\* and the edit state as they were and ends its method (deleteDocument()
\* returns to the loop of deleteMessage()).
C14_StaleWriteFails ==
    [][Wrote =>
          /\ (log'.last.read # NoDoc /\ log'.last.read # log'.last.before) => ~log'.last.ok
          /\ ~log'.last.ok =>
                /\ localDB' = localDB
                /\ revSeq' = revSeq
                /\ EditState(state') = EditState(state)
                /\ log'.last.op # "deleteDocument" => log'.ended.op = log'.last.op]_vars

\* updateMessage() is rejected on the token it read: the message keeps the
\* version another writer stored, and is still under edit.
C14_Witness ==
    /\ log.last.op = "updateMessage"
    /\ log.last.kind = "update"
    /\ ~log.last.ok
    /\ log.last.read # log.last.before
    /\ DbGet(localDB, state.editingMessageId) = log.last.before
    /\ state.editingMessageId = log.last.before._id

(***************************************************************************)
(* The handles are null: new PouchDB(...) threw when the component         *)
(* started, and the buttons outside the loading message are still there.   *)
(***************************************************************************)
NextNull ==
    \/ \E t \in TaskIds :
          \/ Boot(t)
          \/ ((~state.dbOpen \/ (AllIdle /\ revSeq = 0)) /\ generateTestData(t))
          \/ generateTestDataPut(t)
    \/ onMountedFailed
    \/ (StreamsLeft /\ toggleOnlineOffline)

SpecNull == InitSync /\ [][NextNull]_vars

\* A method is called on the started component while the local handle is null.
NullHandle == state.mounted /\ ~state.dbOpen

\* The lists and the loading flag of the view model.
ViewModel(st) == <<st.countries, st.messages, st.comments, st.topLikedMessages, st.isLoading>>

\* C15: a method called while the local handle is null raises nothing and
\* leaves the lists and the loading flag of the view model and both stores
\* as they were.
C15_NullHandleNoOp ==
    [][NullHandle =>
          /\ ~log'.last.raised
          /\ ViewModel(state') = ViewModel(state)
          /\ localDB' = localDB
          /\ remoteDB' = remoteDB]_vars

(***************************************************************************)
(* Blank fields: a field of spaces passes the required attribute of its    *)
(* input.                                                                  *)
(***************************************************************************)
NextBlank ==
    \/ \E t \in TaskIds :
          \/ Boot(t)
          \/ (AllIdle /\ selectCountry(t)) \/ fetchMessages(t) \/ fetchComments(t)
          \/ createMessage(t) \/ createMessagePut(t)
          \/ createComment(t) \/ createCommentPut(t)
          \/ P0_createMessage(t) \/ P0_createMessagePost(t)
    \/ Quiet /\ inputMessage
    \/ Quiet /\ inputComment

SpecBlank == InitUpdate /\ [][NextBlank]_vars

Blank(s) == Trim(s) = EmptyStr

\* C16: createMessage and createComment write no document whose title,
\* content or author is blank.
C16_BlankIsBlocked ==
    (log.last.kind = "create" /\ log.last.ok) =>
        /\ log.last.op = "createMessage" =>
              ~Blank(log.last.after.title) /\ ~Blank(log.last.after.content)
        /\ log.last.op = "createComment" =>
              ~Blank(log.last.after.content) /\ ~Blank(log.last.after.author)

(***************************************************************************)
(* The country of a new message.  Another client deletes a country in the  *)
(* remote store, and the live replication brings the deletion in.          *)
(***************************************************************************)
RemoteDelete ==
    /\ remoteWrites < MaxRemoteWrites
    /\ revSeq < MaxRevs
    /\ \E id \in LiveIds(remoteDB) :
          /\ id.prefix = "country"
          /\ remoteDB' = DbRemove(remoteDB, remoteDB[id], revSeq + 1)
    /\ revSeq' = revSeq + 1
    /\ remoteWrites' = remoteWrites + 1
    /\ log' = [Logged(NoEvent, 0) EXCEPT !.snap = [@ EXCEPT !.clean = FALSE]]
    /\ UNCHANGED <<variant, state, localDB, liveSyncs, handlersMade, now, tasks>>

NextOrphan ==
    \/ \E t \in TaskIds :
          \/ Boot(t)
          \/ Replicate(t)
          \/ (AllIdle /\ selectCountry(t)) \/ fetchMessages(t) \/ fetchComments(t)
          \/ createMessage(t) \/ createMessagePut(t)
          \/ P0_createMessage(t) \/ P0_createMessagePost(t)
    \/ Quiet /\ inputMessage /\ state'.newMessage.title = <<"A">>
    \/ RemoteDelete

SpecOrphan == InitSync /\ [][NextOrphan]_vars

\* C17: the countryId of a message createMessage has just written is the
\* identifier of a country of the local store.
C17_CountryExists ==
    (log.last.op = "createMessage" /\ log.last.kind = "create" /\ log.last.ok) =>
        /\ log.last.after.countryId \in LiveIds(localDB)
        /\ localDB[log.last.after.countryId].type = "country"

(***************************************************************************)
(* deleteCountry() and the documents of the country.                       *)
(***************************************************************************)
\* Task t runs deleteCountry(): it is called, or one of its requests is
\* answered, in the step taken.
StepOfDeleteCountry(t) ==
    /\ tasks'[t] # tasks[t]
    /\ tasks[t].op = "deleteCountry" \/ tasks'[t].op = "deleteCountry"

\* The identifier deleteCountry(id) of task t was called with.
Deleting(t) == IF tasks[t].op = "deleteCountry" THEN tasks[t].id ELSE tasks'[t].id

RefreshSeed ==
    {SeedCountry(<<"A">>), SeedMessage(1, 0), SeedMessage(2, 0), SeedComment(1),
     AsStored(CommentDoc(SeedCommentId(2), SeedMessageId(2), <<"a">>, <<"a">>, 0))}

\* The remote store holds one country more.
InitRefresh == InitWith({StoreOf(RefreshSeed)}, {StoreOf(RefreshSeed \cup {ExtraCountry})})

NextRefresh ==
    \/ \E t \in TaskIds :
          \/ Boot(t)
          \/ Replicate(t)
          \/ (AllIdle /\ selectCountry(t)) \/ fetchMessages(t) \/ fetchComments(t)
    \/ RemoteWrite

SpecRefresh == InitRefresh /\ [][NextRefresh]_vars

\* The first comment of each message of the list, in the order of the list.
RECURSIVE FirstComments(_, _)
FirstComments(db, messages) ==
    IF messages = << >> THEN << >>
    ELSE CommentsQuery(db, Head(messages)._id, 1) \o FirstComments(db, Tail(messages))

\* The lists show what the local store holds.
Fresh ==
    IF variant = "TheWelcome"
    THEN /\ state.countries = AllDocsByPrefix(localDB, "country")
         /\ state.selectedCountryId # NoId =>
               /\ state.messages = MessagesQuery(localDB, MessagesRequest(state))
               /\ state.comments = FirstComments(localDB, state.messages)
    ELSE /\ state.countries = AllDocsByPrefix(localDB, "country")
         /\ state.messages = AllDocsByPrefix(localDB, "message")
         /\ state.comments = AllDocsByPrefix(localDB, "comment")

\* C19: once a fetchAllData() called by a 'change' has returned and no method
\* is in flight, the lists show what the local store holds.
C19_ViewFollowsStore == (log.ended.op = "fetchAllData" /\ AllIdle) => Fresh

(***************************************************************************)
(* The start of TheWelcome: the order of the steps of initDatabases().     *)
(***************************************************************************)
\* Where a task is in initDatabases(): 1 awaiting createIndexes(), 2 awaiting
\* replicateFromRemote(), 3 awaiting a fetch of fetchAllData(), 4 not in it.
Stage(tk) ==
    IF tk.op # "initDatabases" THEN 4
    ELSE CASE Head(tk.steps) = "createIndexes" -> 1
           [] Head(tk.steps) = "replicateFromRemote" -> 2
           [] OTHER -> 3

\* The step taken started a replication stream.
SyncStarted == handlersMade' = handlersMade + 1 /\ liveSyncs' = liveSyncs \cup {handlersMade'}

\* The start with every request answered: the hook runs and each await of
\* initDatabases() is resumed.
NextStartup ==
    \/ \E t \in TaskIds : Boot(t)
    \/ onMountedFailed
    \/ (StreamsLeft /\ toggleOnlineOffline)

SpecStartup == InitSync /\ [][NextStartup]_vars /\ \A t \in TaskIds : WF_vars(Boot(t))

\* initDatabases() has returned and nothing is loading.
Started ==
    /\ state.mounted
    /\ ~state.isLoading
    /\ \A t \in TaskIds : tasks[t].op # "initDatabases"

\* Every step of initDatabases() keeps the order createIndexes, one-shot
\* replication, fetchAllData, start of continuous sync.
StartupSteps ==
    [][/\ \A t \in TaskIds :
            /\ (tasks[t].op = "idle" /\ tasks'[t].op = "initDatabases") =>
                  /\ Stage(tasks'[t]) = 1
                  /\ state'.isLoading
                  /\ liveSyncs' = liveSyncs
            /\ (tasks[t].op = "initDatabases" /\ tasks'[t] # tasks[t]) =>
                  /\ Stage(tasks'[t]) \in {Stage(tasks[t]), Stage(tasks[t]) + 1}
                  /\ Stage(tasks'[t]) < 4 => state'.isLoading /\ liveSyncs' = liveSyncs
                  /\ Stage(tasks'[t]) = 4 =>
                        /\ ~state'.isLoading
                        /\ IF state.isOnline THEN SyncStarted ELSE liveSyncs' = liveSyncs
       /\ log'.last.op = "replicateFromRemote" =>
             \E t \in TaskIds : Stage(tasks[t]) = 2 /\ Stage(tasks'[t]) = 3
       /\ (variant = "TheWelcome" /\ log'.last.op = "initDatabases") => ~state'.isLoading]_vars

\* C20: initDatabases() awaits createIndexes(), then the one-shot replication,
\* once, then the fetches of fetchAllData(), whether or not the replication
\* failed; it starts the continuous sync in its last step only, where isOnline
\* is true; and it returns with isLoading false, also where the stores could
\* not be opened: with every request answered, the start ends and, no other
\* method being called, isLoading stays false.
C20_StartupOrder == StartupSteps /\ <>[](variant = "TheWelcome" => Started)

\* The one-shot replication has just failed and initDatabases() awaits the
\* first fetch of fetchAllData().
C20_Witness ==
    /\ variant = "TheWelcome"
    /\ log.last.op = "replicateFromRemote"
    /\ ~log.last.ok
    /\ \E t \in TaskIds : tasks[t].op = "initDatabases" /\ Awaiting(t, "fetchCountries")
    /\ state.isLoading


(***************************************************************************)
(* Message queries in flight at once: the search term and the sort order   *)
(* are changed, and a 'change' of the replication arrives, while earlier   *)
(* queries are not answered yet.                                           *)
(***************************************************************************)
\* A country and two messages of it, which differ in title and in likes.
SearchSeed ==
    {SeedCountry(<<"A">>), SeedMessage(1, 1), [SeedMessage(2, 0) EXCEPT !.title = <<".">>]}

InitSearch == InitWith({StoreOf(SearchSeed)}, {StoreOf(SearchSeed \cup {ExtraCountry})})

NextSearch ==
    \/ \E t \in TaskIds :
          \/ Boot(t)
          \/ Replicate(t)
          \/ (AllIdle /\ selectCountry(t)) \/ fetchMessages(t) \/ fetchComments(t)
          \/ inputSearchMessageTerm(t) \/ inputSortBy(t)
          \/ P0_searchMessages(t) \/ P0_sortMessages(t) \/ P0_messagesFind(t)
    \/ P0_inputSearchTerm

SpecSearch == InitSearch /\ [][NextSearch]_vars

\* Task t awaits the answer to a query for the list of messages.
MessagesAwaited(t) ==
    \/ Awaiting(t, "fetchMessages")
    \/ Awaiting(t, "P0:searchMessages")
    \/ Awaiting(t, "P0:sortMessages")

\* The answer to the query task t awaits.
MessagesAnswer(t) ==
    IF variant = "TheWelcome" THEN MessagesQuery(localDB, tasks[t].q)
    ELSE P0_MessagesQuery(localDB, tasks[t])

\* C21: the answer to a query for the messages is put in state.messages as it
\* arrives, whatever the queries still in flight and whatever the state asks
\* for by then, and the queries still in flight stay in flight.
C21_LastArrivalWins ==
    [][\A t \in TaskIds :
          (MessagesAwaited(t) /\ tasks'[t] # tasks[t]) =>
             /\ state'.messages = MessagesAnswer(t)
             /\ \A u \in TaskIds \ {t} : tasks'[u] = tasks[u]]_vars

\* Every query has been answered, the store is as at the start, and the list
\* is not the answer to the request of the state: the answer to an older term
\* or sort order arrived last.
C21_Witness ==
    /\ AllIdle
    /\ localDB = log.origin
    /\ \/ /\ variant = "TheWelcome"
          /\ log.ended.op = "fetchMessages"
          /\ state.messages # MessagesQuery(localDB, MessagesRequest(state))
       \/ /\ variant = "part_000"
          /\ log.ended.op = "sortMessages"
          /\ state.messages # P0_SortQuery(localDB, state.sortBy)

(***************************************************************************)
(* The top messages page by page: the start, then the button that loads    *)
(* the next page, one call at a time, over a store no one writes to.       *)
(***************************************************************************)
NextPages ==
    \E t \in TaskIds :
        \/ Boot(t)
        \/ (AllIdle /\ loadMoreTopMessages(t))

SpecPages == InitTop /\ [][NextPages]_vars

\* C22: after the answer to a fetchTopLikedMessages() and to k calls of
\* loadMoreTopMessages(), the list is the first (k + 1) * 10 messages of the
\* store by likes, or all of them where the store holds fewer, each once.
C22_TopPages ==
    (/\ variant = "TheWelcome"
     /\ log.last.kind = "query"
     /\ log.last.op \in {"fetchTopLikedMessages", "loadMoreTopMessages"}) =>
        LET r == state.topLikedMessages
            all == TopLikedQuery(localDB, NoLimit, 0)
        IN  /\ r = Limit(all, (log.loads + 1) * topMessagesLimit)
            /\ Cardinality({r[i]._id : i \in 1..Len(r)}) = Len(r)

(***************************************************************************)
(* The range scan over identifiers and the type field: documents are       *)
(* created locally, and others arrive from the remote store, where another *)
(* client of the program wrote them.                                       *)
(***************************************************************************)
NextPrefix ==
    \/ \E t \in TaskIds :
          \/ Boot(t)
          \/ Replicate(t)
          \/ createCountry(t) \/ createCountryPut(t)
          \/ P0_createMessage(t) \/ P0_createMessagePost(t)
    \/ Quiet /\ inputCountry /\ state'.newCountry.region = <<"a">>
    \/ Quiet /\ inputMessage /\ variant = "part_000" /\ state'.newMessage.title = <<"A">>
    \/ RemoteWrite

SpecPrefix == InitSync /\ [][NextPrefix]_vars

\* The types a revision lists by a range scan over identifiers.
ScannedTypes == IF variant = "TheWelcome" THEN {"country"} ELSE DocTypes

OfType(db, type) == {d \in LiveDocs(db) : d.type = type}

\* C23: in every state the scan of the local store over the identifiers of a
\* prefix gives the documents whose type field is the prefix, and so does the
\* answer a fetch has just put in the list of countries.
C23_ScanIsType ==
    /\ \A type \in ScannedTypes : Range(AllDocsByPrefix(localDB, type)) = OfType(localDB, type)
    /\ (log.last.kind = "query" /\ log.last.op = "fetchCountries") =>
          Range(state.countries) = OfType(localDB, "country")

\* A fetch has just listed a country that came from the remote store, next
\* to a document a create method wrote.
C23_Witness ==
    /\ log.last.kind = "query"
    /\ log.last.op \in {"fetchCountries", "fetch"}
    /\ ExtraCountry._id \notin DOMAIN log.origin
    /\ \E i \in 1..Len(state.countries) : state.countries[i]._id = ExtraCountry._id
    /\ \E i \in LiveIds(localDB) : i \notin DOMAIN log.origin /\ i \notin DOMAIN remoteDB

(***************************************************************************)
(* The replication streams: state.syncHandler holds the last one started.  *)
(***************************************************************************)
\* C24: at most one replication stream is live, and it is the one
\* state.syncHandler holds.
C24_OneStream ==
    /\ Cardinality(liveSyncs) <= 1
    /\ liveSyncs # {} => liveSyncs = {state.syncHandler}

(***************************************************************************)
(* A country is selected: selectCountry() calls fetchMessages() and        *)
(* fetchComments() one after the other, without awaiting the first.  No    *)
(* one writes to the stores.                                               *)
(***************************************************************************)
\* Two countries, messages of each, and a comment on each message.
SelectSeed ==
    RefreshSeed
    \cup {ExtraCountry,
          AsStored(MessageDoc(SeedMessageId(3), ExtraCountry._id, <<"a">>, <<"a">>, 0, 0)),
          AsStored(CommentDoc(SeedCommentId(3), SeedMessageId(3), <<"a">>, <<"a">>, 0))}

InitSelect == InitWith({StoreOf(SelectSeed)}, {StoreOf(SelectSeed)})

NextSelect ==
    \E t \in TaskIds :
        \/ Boot(t)
        \/ (AllIdle /\ selectCountry(t)) \/ fetchMessages(t) \/ fetchComments(t)
        \/ inputSortBy(t) \/ inputSearchMessageTerm(t)

SpecSelect == InitSelect /\ [][NextSelect]_vars

\* C25: once the fetches selectCountry() started have returned, the list of
\* messages is that of the selected country and the list of comments is the
\* first comment of each message of the list.
C25_SelectShowsCountry ==
    (/\ variant = "TheWelcome"
     /\ AllIdle
     /\ state.selectedCountryId # NoId
     /\ log.ended.op \in {"fetchMessages", "fetchComments"}) =>
        /\ state.messages = MessagesQuery(localDB, MessagesRequest(state))
        /\ state.comments = FirstComments(localDB, state.messages)

(***************************************************************************)
(* The comment forms of the listed messages.  The local store holds what   *)
(* an earlier session left: one of the messages was given a file by        *)
(* uploadAttachment().                                                     *)
(***************************************************************************)
\* Two countries, two messages of the first, one of them with a file or
\* none, and a comment.
FormsSeed(file) ==
    {SeedCountry(<<"A">>), ExtraCountry, [SeedMessage(1, 0) EXCEPT !._attachments = file],
     SeedMessage(2, 0), SeedComment(1)}

FormsStores == {StoreOf(FormsSeed(file)) : file \in BOOLEAN}

InitForms == InitWith(FormsStores, FormsStores) /\ remoteDB = localDB

NextForms ==
    \/ \E t \in TaskIds :
          \/ Boot(t)
          \/ (AllIdle /\ selectCountry(t)) \/ fetchMessages(t) \/ fetchComments(t)
          \/ loadMessageAttachments(t)
          \/ (AllIdle /\ uploadAttachment(t)) \/ uploadAttachmentGet(t) \/ uploadAttachmentPut(t)
    \/ (Quiet /\ inputComment)

SpecForms == InitForms /\ [][NextForms]_vars

\* C26: every message of the list has a comment form, in every state.
C26_EveryMessageHasForm ==
    variant = "TheWelcome" =>
        \A i \in 1..Len(state.messages) : state.messages[i]._id \in DOMAIN state.commentForms

(***************************************************************************)
(* The expanded list of the comments of a message: the list is kept in     *)
(* allCommentsForMessage once fetched, and the message is collapsed and    *)
(* expanded again while comments are written.                              *)
(***************************************************************************)
NextExpand ==
    \/ \E t \in TaskIds :
          \/ Boot(t)
          \/ (AllIdle /\ selectCountry(t)) \/ fetchMessages(t) \/ fetchComments(t)
          \/ (AllIdle /\ toggleCommentsVisibility(t)) \/ fetchAllCommentsForMessage(t)
          \/ (AllIdle /\ createComment(t)) \/ createCommentPut(t)
    \/ (Quiet /\ inputComment /\ \E i \in DOMAIN state'.commentForms :
                                    state'.commentForms[i].content = <<"a">>)

SpecExpand == Init /\ [][NextExpand]_vars

\* C27: while a message is expanded and no method is in flight, the list shown
\* for it is the list of its comments in the local store.
C27_ExpandedIsCurrent ==
    (variant = "TheWelcome" /\ AllIdle /\ state.expandedMessageId # NoId) =>
        /\ state.expandedMessageId \in DOMAIN state.allCommentsForMessage
        /\ state.allCommentsForMessage[state.expandedMessageId]
              = CommentsQuery(localDB, state.expandedMessageId, NoLimit)

(***************************************************************************)
(* The like set and the store.                                             *)
(***************************************************************************)
\* The put of toggleLike() of task t was rejected in this step.
LikeRejected(t) ==
    /\ Awaiting(t, "toggleLike:put")
    /\ tasks'[t] # tasks[t]
    /\ log'.last.op = "toggleLike"
    /\ log'.last.kind = "like"
    /\ ~log'.last.ok

\* What userLikedMessages.has(message._id) gave the call of task t, read
\* back from the likes it computed for the document it read.
HadLiked(t) == tasks[t].doc.likes # tasks[t].acc[1].likes + 1

\* C28: when the put of a toggleLike(message) is rejected, the message is in
\* userLikedMessages exactly if it was when the call read the set.
C28_RejectedLikeKeepsSet ==
    [][\A t \in TaskIds :
          LikeRejected(t) =>
              ((tasks[t].id \in state'.userLikedMessages) <=> HadLiked(t))]_vars

(***************************************************************************)
(* The edit pointers next to the deletes.                                  *)
(***************************************************************************)
NextPointers ==
    \/ \E t \in TaskIds :
          \/ Boot(t)
          \/ Browse(t)
          \/ (AllIdle /\ deleteCountry(t)) \/ deleteCountryGet(t) \/ deleteCountryRemove(t)
          \/ (AllIdle /\ deleteMessage(t)) \/ deleteMessageGet(t) \/ deleteMessageRemove(t)
          \/ deleteMessageFind(t) \/ deleteMessageRemoveComment(t)
          \/ (AllIdle /\ deleteComment(t)) \/ deleteCommentGet(t) \/ deleteCommentRemove(t)
          \/ (AllIdle /\ P0_deleteMessage(t)) \/ P0_deleteMessageGet(t)
          \/ P0_deleteDocumentGet(t) \/ P0_deleteDocumentRemove(t)
          \/ P0_deleteMessageRemove(t)
          \/ (AllIdle /\ P0_deleteComment(t)) \/ P0_deleteCommentGet(t)
          \/ P0_deleteCommentRemove(t)
    \/ NoneEdited /\ startEditingCountry
    \/ NoneEdited /\ startEditingMessage
    \/ NoneEdited /\ startEditingComment
    \/ NoneEdited /\ P0_startEditingMessage
    \/ NoneEdited /\ P0_startEditingComment

SpecPointers == InitDelete /\ [][NextPointers]_vars

\* The edit pointers that are set.
EditPointers(st) ==
    {st.editingCountryId, st.editingMessageId, st.editingCommentId} \ {NoId}

\* C29: with no method in flight, every edit pointer that is set is the id of
\* a live document of the local store.
C29_PointersAreLive == AllIdle => EditPointers(state) \subseteq LiveIds(localDB)

(***************************************************************************)
(* Creates under identifiers that collide: the create methods of both      *)
(* revisions, called again in the millisecond of an earlier call or in a   *)
(* later one.                                                              *)
(***************************************************************************)
NextMint ==
    \/ \E t \in TaskIds :
          \/ Boot(t)
          \/ (AllIdle /\ selectCountry(t)) \/ fetchMessages(t) \/ fetchComments(t)
          \/ createCountry(t) \/ createCountryPut(t)
          \/ createMessage(t) \/ createMessagePut(t)
          \/ createComment(t) \/ createCommentPut(t)
          \/ P0_createMessage(t) \/ P0_createMessagePost(t)
          \/ P0_createComment(t) \/ P0_createCommentPost(t)
    \/ Quiet /\ inputCountry /\ state'.newCountry.region = <<"a">>
    \/ Quiet /\ inputMessage /\ state'.newMessage.title = <<"A">>
    \/ Quiet /\ inputComment /\ \E i \in DOMAIN state'.commentForms :
                                    state'.commentForms[i].content = <<"a">>
    \/ Quiet /\ P0_inputComment /\ state'.newComment.content = <<"a">>
    \/ AllIdle /\ Tick

SpecMint == InitUpdate /\ [][NextMint]_vars

\* The forms of the create methods.
CreateForms(st) == <<st.newCountry, st.newMessage, st.newComment, st.commentForms>>

\* The put (or post) of a create method was answered in this step.
CreateAnswered ==
    /\ log'.last.kind = "create"
    /\ log'.last.op \in {"createCountry", "createMessage", "createComment"}

\* C30: the write of a create method under an identifier that a live
\* document of the local store holds is rejected; a rejected write leaves the
\* local store and the forms as they were; an accepted one adds one live
\* document and leaves every other document as it was.
C30_CreateSteps ==
    [][CreateAnswered =>
          LET e == log'.last
          IN  /\ (e.before # NoDoc /\ ~e.before._deleted) => ~e.ok
              /\ ~e.ok => /\ localDB' = localDB
                          /\ CreateForms(state') = CreateForms(state)
                          /\ e.before # NoDoc
              /\ e.ok => /\ e.after._id \notin LiveIds(localDB)
                         /\ LiveIds(localDB') = LiveIds(localDB) \cup {e.after._id}
                         /\ \A i \in DOMAIN localDB \ {e.after._id} :
                               localDB'[i] = localDB[i]]_vars

\* A create was rejected over a document that a create of this run had
\* written, and the form still holds what was submitted.
C30_Witness ==
    /\ log.last.kind = "create"
    /\ log.last.op \in {"createCountry", "createMessage", "createComment"}
    /\ ~log.last.ok
    /\ log.last.before # NoDoc
    /\ log.last.before._rev # <<0>>
    /\ localDB[log.last.before._id] = log.last.before
    /\ CreateForms(state) # CreateForms(InitialState(variant))

====
